---- MODULE Spec2Model ----
(***************************************************************************)
(* Model of the asynchronous job scheduler of package jobs (Actions,       *)
(* NewActions): the job queue, the dependency graph, the job table, the    *)
(* per-job update channel with its pump goroutine, the one-second admit    *)
(* tick and the table-update consumer.                                     *)
(***************************************************************************)
EXTENDS Integers, Sequences, FiniteSets, TLC

\* ---------------------------------------------------------------- bounds
\* conf.MaxNumConcurrentJobs: the configured admission ceiling
MaxNumConcurrentJobs == 2
\* total number of descriptors the workers of one run send on their channels
MaxUpdates == 2
\* number of times the process is shut down and started again
MaxRestarts == 1
\* number of job IDs the stop channel takes before a Delete call blocks
MaxStops == 1
\* capacity of a per-job update channel: make(chan GeneralJobInfo, 100)
ChanCap == 100

\* job identifiers the HTTP handlers may enqueue (each is enqueued once)
Jobs == {"a", "b", "c"}
JobOrder == [j \in Jobs |-> CASE j = "a" -> 1 [] j = "b" -> 2 [] OTHER -> 3]
\* IDs found in the status file at construction (at most this one)
SavedJob == "a"

\* e-mail addresses the notification handlers are called with
Addresses == {"x", "y", "z"}

NoParent == "none"
NoErr == "nil"
WorkerErr == "workerErr"
ParentErr == "failedParent"
\* the zero value of the pump's `item` variable (a nil GeneralJobInfo)
NilItem == [err |-> "nilItem", fin |-> FALSE]

\* a job descriptor as far as the scheduler looks at it: GetError, IsFinished
Descriptors == [err : {NoErr, WorkerErr}, fin : BOOLEAN]
\* the descriptors of a worker that reports progress and leaves finishing to
\* the scheduler
ProgressDescriptors == [err : {NoErr, WorkerErr}, fin : {FALSE}]
\* the initial status a handler passes to EnqueueJob / EqueueJobAfter
InitialStatus == [err |-> NoErr, fin |-> FALSE]

VARIABLES
    callPc,         \* per job ID: position of the handler's enqueue call
    callParent,     \* per job ID: the parentJobID argument (NoParent: EnqueueJob)
    jobQueue,       \* a.jobQueue: sequence of [id, info]
    jobQueueLock,   \* a.jobQueueLock: "free" or "held"
    jobDeps,        \* a.jobDeps: child ID -> set of parent IDs
    parentState,    \* a.jobDeps: per-parent state
    jobList,        \* a.jobList: job ID -> descriptor
    detachedJobs,   \* a.detachedJobs (IDs)
    syncUpdates,    \* per registered job: contents of its update channel
    chanClosed,     \* per job: the update channel has been closed
    pumpPc,         \* per job: "none", "run" (ranging over the channel), "done"
    pumpItem,       \* per job: `item` of the running pump (last descriptor received)
    workerPc,       \* per job: "none", "running", "returned"
    nSent,          \* number of descriptors sent by workers so far
    tickPc,         \* admit tick goroutine: "wait" or "admit"
    numUnfinished,  \* the tick's local numUnfinished
    notificationRecipients, \* a.notificationRecipients: job ID -> seq of addresses
    mailSent,       \* notifications handed to the mailer: seq of [job, to]
    crashed,        \* a goroutine panicked (the process is gone)
    ctxDone,        \* the ambient context has been cancelled
    statusFile,     \* job IDs goWaitExit has written to conf.StatusDataPath
    exitPc,         \* goWaitExit goroutine: "wait", "iter", "serialize", "saved"
    snap,           \* per job ID: its place in createJobList's range over jobList
    clearPc,        \* hourly clear tick goroutine: "run" or "stopped"
    restarts,       \* number of times the process has been started again
    jobStop,        \* IDs published on the stop channel
    moments,        \* the sets of unfinished table entries at the cancellation
                    \* and at each step of the snapshot
    qc,             \* the EmptyQueryCache: [data, corpKeyDeps]
    lcache,         \* the LiveAttrsBuildConfProvider: [globalDBConf, data, files]
    ret,            \* what the last call of a library function returned
    nCalls,         \* number of cache and provider calls made so far
    qcPc,           \* per thread: its call of a cache method and how far it got
    attrValues      \* data.AttrValues[bibLabel] of the answer getAttrValues builds

vars == <<callPc, callParent, jobQueue, jobQueueLock, jobDeps, parentState,
          jobList, detachedJobs, syncUpdates, chanClosed, pumpPc, pumpItem,
          workerPc, nSent, tickPc, numUnfinished, notificationRecipients,
          mailSent, crashed, ctxDone, statusFile, exitPc, snap, clearPc,
          restarts, jobStop, moments, qc, lcache, ret, nCalls, qcPc,
          attrValues>>

\* shutdown, restart and stop-channel state: the enqueue calls, the admit
\* tick, the workers, the pumps and the consumer leave it alone
libVars == <<qc, lcache, ret, nCalls, qcPc, attrValues>>
extVars == <<ctxDone, statusFile, exitPc, snap, clearPc, restarts, jobStop,
             moments, libVars>>
callVars == <<callPc, callParent>>
chanVars == <<syncUpdates, chanClosed, pumpPc, pumpItem>>
mailVars == <<notificationRecipients, mailSent>>

\* ------------------------------------------------------ descriptor methods
WithError(d, e) == [d EXCEPT !.err = e]
AsFinished(d) == [d EXCEPT !.fin = TRUE]
GetError(d) == d.err
IsFinished(d) == d.fin

\* ------------------------------------------------------------- job queue
Enqueue(q, id, info) == Append(q, [id |-> id, info |-> info])
PeekID(q) == Head(q).id
Dequeue(q) == Tail(q)
DelayNext(q) == Append(Tail(q), Head(q))

\* ------------------------------------------------------ dependency graph
HasDeps(deps, child) == child \in DOMAIN deps
Add(deps, child, parent) ==
    IF child \in DOMAIN deps
    THEN [deps EXCEPT ![child] = @ \cup {parent}]
    ELSE (child :> {parent}) @@ deps
MustWait(deps, pst, child) == \E p \in deps[child] : pst[p] = "unfinished"
HasFailedParent(deps, pst, child) == \E p \in deps[child] : pst[p] = "failed"
SetParentFinished(pst, parent, wasFailure) ==
    [pst EXCEPT ![parent] = IF wasFailure THEN "failed" ELSE "ok"]

\* ---------------------------------------------------------- job table
numOfUnfinishedJobs(jl) == Cardinality({j \in DOMAIN jl : ~IsFinished(jl[j])})
Put(f, k, v) == IF k \in DOMAIN f THEN [f EXCEPT ![k] = v] ELSE (k :> v) @@ f

\* ----------------------------------------------------- library objects
\* corpus identifiers the cache and the configuration provider are called with
Corpora == {"c1", "c2", "c3"}
\* DB sections (vtedb.Conf) as far as the provider looks at them: the type
\* and the rest, which tells one section from another
DBConfs == [Type : {"mysql", "sqlite"}, Name : {"global", "stored"}]
\* the cache and the provider are called at most this many times
MaxCalls == 3
\* the DB section of the Frodo configuration a provider is constructed with
GlobalDBConfs == {[Type |-> "mysql", Name |-> "global"],
                  [Type |-> "sqlite", Name |-> "global"]}
\* no library function has been called yet
NoCall == [op |-> "none"]
\* no answer is being built: no value listed for the bibliography label
NoValues == [kind |-> "list", items |-> <<>>]
\* the goroutines (HTTP handlers, jobs) that call the cache at the same time
CacheThreads == {"t1", "t2"}

NewEmptyQueryCache == [data |-> <<>>, corpKeyDeps |-> <<>>]

NewLiveAttrsBuildConfProvider(globalDBConf) ==
    [globalDBConf |-> globalDBConf, data |-> <<>>, files |-> <<>>]

\* the objects NewActions builds and the detached jobs it loads
ActionsInit ==
    /\ callPc = [j \in Jobs |-> "idle"]
    /\ callParent = [j \in Jobs |-> NoParent]
    /\ jobQueue = <<>>
    /\ jobQueueLock = "free"
    /\ jobDeps = <<>>
    /\ parentState = [j \in Jobs |-> "unfinished"]
    /\ jobList = <<>>
    /\ detachedJobs \in {{}, {SavedJob}}
    /\ syncUpdates = [j \in Jobs |-> <<>>]
    /\ chanClosed = [j \in Jobs |-> FALSE]
    /\ pumpPc = [j \in Jobs |-> "none"]
    /\ pumpItem = [j \in Jobs |-> NilItem]
    /\ workerPc = [j \in Jobs |-> "none"]
    /\ nSent = 0
    /\ tickPc = "wait"
    /\ numUnfinished = 0
    /\ notificationRecipients = <<>>
    /\ mailSent = <<>>
    /\ crashed = FALSE
    /\ ctxDone = FALSE
    /\ statusFile = {}
    /\ exitPc = "wait"
    /\ snap = [j \in Jobs |-> "none"]
    /\ clearPc = "run"
    /\ restarts = 0
    /\ jobStop = <<>>
    /\ moments = {}

\* the job scheduler after construction, next to a new cache and a new
\* configuration provider
Init ==
    /\ ActionsInit
    /\ qc = NewEmptyQueryCache
    /\ lcache = NewLiveAttrsBuildConfProvider([Type |-> "mysql", Name |-> "global"])
    /\ ret = NoCall
    /\ nCalls = 0
    /\ qcPc = [t \in CacheThreads |-> NoCall]
    /\ attrValues = NoValues

\* ----------------------------------------------------- enqueue (handlers)
\* A handler starts EnqueueJob (p = NoParent) or EqueueJobAfter (p = parent ID).
\* The parent ID is one a previous enqueue call has returned to its caller.
\* Job IDs are fresh and interchangeable: they are handed out in the order
\* of JobOrder, which loses no behaviour up to renaming.
CallEnqueue(j, p) ==
    /\ ~crashed
    /\ callPc[j] = "idle"
    /\ \A q \in Jobs : JobOrder[q] < JobOrder[j] => callPc[q] # "idle"
    /\ p \in {NoParent} \cup {q \in Jobs \ {j} : callPc[q] = "done"}
    /\ callPc' = [callPc EXCEPT ![j] = "lock"]
    /\ callParent' = [callParent EXCEPT ![j] = p]
    /\ UNCHANGED <<jobQueue, jobQueueLock, jobDeps, parentState, jobList,
                   detachedJobs, chanVars, workerPc, nSent, tickPc,
                   numUnfinished, mailVars, crashed>>
    /\ UNCHANGED extVars

\* an enqueue that writes the initial status into the job table itself
LockedEnqueueRegister(j) ==
    /\ ~crashed
    /\ callPc[j] = "lock"
    /\ jobQueueLock = "free"
    /\ jobQueue' = Enqueue(jobQueue, j, InitialStatus)
    /\ jobList' = Put(jobList, j, InitialStatus)
    /\ callPc' = [callPc EXCEPT ![j] =
                    IF callParent[j] = NoParent THEN "done" ELSE "add"]
    /\ UNCHANGED <<callParent, jobQueueLock, jobDeps, parentState,
                   detachedJobs, chanVars, workerPc, nSent, tickPc,
                   numUnfinished, mailVars, crashed>>
    /\ UNCHANGED extVars

\* jobQueueLock.Lock(); jobQueue.Enqueue(fn, initialStatus); jobQueueLock.Unlock()
\* EnqueueJob returns here; EqueueJobAfter goes on to jobDeps.Add.
LockedEnqueue(j) ==
    /\ ~crashed
    /\ callPc[j] = "lock"
    /\ jobQueueLock = "free"
    /\ jobQueue' = Enqueue(jobQueue, j, InitialStatus)
    /\ callPc' = [callPc EXCEPT ![j] =
                    IF callParent[j] = NoParent THEN "done" ELSE "add"]
    /\ UNCHANGED <<callParent, jobQueueLock, jobDeps, parentState, jobList,
                   detachedJobs, chanVars, workerPc, nSent, tickPc,
                   numUnfinished, mailVars, crashed>>
    /\ UNCHANGED extVars

\* EqueueJobAfter, after the unlock: a.jobDeps.Add(initialStatus.GetID(), parentJobID)
EqueueJobAfterAdd(j) ==
    /\ ~crashed
    /\ callPc[j] = "add"
    /\ jobDeps' = Add(jobDeps, j, callParent[j])
    /\ callPc' = [callPc EXCEPT ![j] = "done"]
    /\ UNCHANGED <<callParent, jobQueue, jobQueueLock, parentState, jobList,
                   detachedJobs, chanVars, workerPc, nSent, tickPc,
                   numUnfinished, mailVars, crashed>>
    /\ UNCHANGED extVars

\* a registerJob that leaves the detached entry of the same ID in place
registerJobKeepDetached(id, d, sent) ==
    /\ detachedJobs' = detachedJobs
    /\ jobList' = Put(jobList, id, d)
    /\ syncUpdates' = [syncUpdates EXCEPT ![id] = sent]
    /\ chanClosed' = [chanClosed EXCEPT ![id] = FALSE]
    /\ pumpPc' = [pumpPc EXCEPT ![id] = "run"]
    /\ pumpItem' = [pumpItem EXCEPT ![id] = NilItem]

\* ------------------------------------------------------------ registerJob
\* registerJob(j): drop a detached job of the same ID, write the table entry,
\* create the update channel (holding `sent`) and start the pump goroutine.
registerJob(id, d, sent) ==
    /\ detachedJobs' = detachedJobs \ {id}
    /\ jobList' = Put(jobList, id, d)
    /\ syncUpdates' = [syncUpdates EXCEPT ![id] = sent]
    /\ chanClosed' = [chanClosed EXCEPT ![id] = FALSE]
    /\ pumpPc' = [pumpPc EXCEPT ![id] = "run"]
    /\ pumpItem' = [pumpItem EXCEPT ![id] = NilItem]

\* a dequeueAndRunJob that starts the head and leaves it in the queue
dequeueAndRunJobKeepHead ==
    /\ registerJob(Head(jobQueue).id, Head(jobQueue).info, <<>>)
    /\ jobQueue' = jobQueue
    /\ workerPc' = [workerPc EXCEPT ![Head(jobQueue).id] = "running"]

\* dequeueAndRunJob: Dequeue, registerJob(initState), go fn(updateJobChan)
dequeueAndRunJob ==
    /\ registerJob(Head(jobQueue).id, Head(jobQueue).info, <<>>)
    /\ jobQueue' = Dequeue(jobQueue)
    /\ workerPc' = [workerPc EXCEPT ![Head(jobQueue).id] = "running"]

\* dequeueJobAsFailed: Dequeue, registerJob(initState.WithError(err)),
\* updateJobChan <- finalState.AsFinished(); the channel is not closed.
dequeueJobAsFailed(err) ==
    /\ registerJob(Head(jobQueue).id, WithError(Head(jobQueue).info, err),
                   <<AsFinished(WithError(Head(jobQueue).info, err))>>)
    /\ jobQueue' = Dequeue(jobQueue)
    /\ UNCHANGED workerPc

\* -------------------------------------------------------------- admit tick
\* case <-ticker2.C: jobQueueLock.Lock(); numUnfinished := numOfUnfinishedJobs()
TickLock ==
    /\ ~crashed
    /\ tickPc = "wait"
    /\ jobQueueLock = "free"
    /\ jobQueueLock' = "held"
    /\ numUnfinished' = numOfUnfinishedJobs(jobList)
    /\ tickPc' = "admit"
    /\ UNCHANGED <<callVars, jobQueue, jobDeps, parentState, jobList,
                   detachedJobs, chanVars, workerPc, nSent, mailVars, crashed>>
    /\ UNCHANGED extVars

\* MaxNumConcurrentJobs > numUnfinished is false: the body is skipped, and
\* with it the Unlock at its end.
TickAtCapacity ==
    /\ ~(MaxNumConcurrentJobs > numUnfinished)
    /\ UNCHANGED <<jobQueue, jobQueueLock, jobList, detachedJobs, chanVars,
                   workerPc>>

\* PeekID fails: empty queue
TickEmptyQueue ==
    /\ MaxNumConcurrentJobs > numUnfinished
    /\ jobQueue = <<>>
    /\ jobQueueLock' = "free"
    /\ UNCHANGED <<jobQueue, jobList, detachedJobs, chanVars, workerPc>>

\* a tick that may move any head to the tail, blocked or not
TickDelayAnyHead ==
    /\ MaxNumConcurrentJobs > numUnfinished
    /\ jobQueue # <<>>
    /\ jobQueue' = DelayNext(jobQueue)
    /\ jobQueueLock' = "free"
    /\ UNCHANGED <<jobList, detachedJobs, chanVars, workerPc>>

\* job with dependencies, MustWait: jobQueue.DelayNext()
TickDelay ==
    /\ MaxNumConcurrentJobs > numUnfinished
    /\ jobQueue # <<>>
    /\ HasDeps(jobDeps, PeekID(jobQueue))
    /\ MustWait(jobDeps, parentState, PeekID(jobQueue))
    /\ jobQueue' = DelayNext(jobQueue)
    /\ jobQueueLock' = "free"
    /\ UNCHANGED <<jobList, detachedJobs, chanVars, workerPc>>

\* a tick that fails a head with a failed parent without asking MustWait
TickFailedParentFirst ==
    /\ MaxNumConcurrentJobs > numUnfinished
    /\ jobQueue # <<>>
    /\ HasDeps(jobDeps, PeekID(jobQueue))
    /\ HasFailedParent(jobDeps, parentState, PeekID(jobQueue))
    /\ dequeueJobAsFailed(ParentErr)
    /\ jobQueueLock' = "free"

\* job with dependencies, no parent unfinished, HasFailedParent
TickFailedParent ==
    /\ MaxNumConcurrentJobs > numUnfinished
    /\ jobQueue # <<>>
    /\ HasDeps(jobDeps, PeekID(jobQueue))
    /\ ~MustWait(jobDeps, parentState, PeekID(jobQueue))
    /\ HasFailedParent(jobDeps, parentState, PeekID(jobQueue))
    /\ dequeueJobAsFailed(ParentErr)
    /\ jobQueueLock' = "free"

\* job without dependencies, or all of its parents finished without failure
TickRun ==
    /\ MaxNumConcurrentJobs > numUnfinished
    /\ jobQueue # <<>>
    /\ \/ ~HasDeps(jobDeps, PeekID(jobQueue))
       \/ /\ HasDeps(jobDeps, PeekID(jobQueue))
          /\ ~MustWait(jobDeps, parentState, PeekID(jobQueue))
          /\ ~HasFailedParent(jobDeps, parentState, PeekID(jobQueue))
    /\ dequeueAndRunJob
    /\ jobQueueLock' = "free"

\* the body of the tick after numUnfinished has been read (lines 545-581)
TickAdmit ==
    /\ ~crashed
    /\ tickPc = "admit"
    /\ tickPc' = "wait"
    /\ \/ TickAtCapacity
       \/ TickEmptyQueue
       \/ TickDelay
       \/ TickFailedParent
       \/ TickRun
    /\ numUnfinished' = 0
    /\ UNCHANGED <<callVars, jobDeps, parentState, nSent, mailVars, crashed>>
    /\ UNCHANGED extVars

\* ------------------------------------------------------------------ worker
\* the worker sends a descriptor on its update channel (blocks when it is full)
WorkerSend(j, d) ==
    /\ ~crashed
    /\ workerPc[j] = "running"
    /\ nSent < MaxUpdates
    /\ Len(syncUpdates[j]) < ChanCap
    /\ syncUpdates' = [syncUpdates EXCEPT ![j] = Append(@, d)]
    /\ nSent' = nSent + 1
    /\ UNCHANGED <<callVars, jobQueue, jobQueueLock, jobDeps, parentState,
                   jobList, detachedJobs, chanClosed, pumpPc, pumpItem,
                   workerPc, tickPc, numUnfinished, mailVars, crashed>>
    /\ UNCHANGED extVars

\* the worker closes its update channel and returns
WorkerClose(j) ==
    /\ ~crashed
    /\ workerPc[j] = "running"
    /\ chanClosed' = [chanClosed EXCEPT ![j] = TRUE]
    /\ workerPc' = [workerPc EXCEPT ![j] = "returned"]
    /\ UNCHANGED <<callVars, jobQueue, jobQueueLock, jobDeps, parentState,
                   jobList, detachedJobs, syncUpdates, pumpPc, pumpItem,
                   nSent, tickPc, numUnfinished, mailVars, crashed>>
    /\ UNCHANGED extVars

\* ------------------------------------------------- table-update consumer
\* the update written as it comes, dropping the error kept so far
UpdatedEntryOverwrite(cur, data) == data

\* tableActionUpdateJob: the entry written for upd.data given the stored entry
UpdatedEntry(cur, data) ==
    IF GetError(cur) # NoErr /\ GetError(data) = NoErr
    THEN WithError(data, GetError(cur))
    ELSE data

\* a pump that takes the newest descriptor of the channel instead of the oldest
ConsumeUpdateNewest(j) ==
    /\ ~crashed
    /\ pumpPc[j] = "run"
    /\ syncUpdates[j] # <<>>
    /\ syncUpdates' = [syncUpdates EXCEPT ![j] = SubSeq(@, 1, Len(@) - 1)]
    /\ pumpItem' = [pumpItem EXCEPT ![j] = syncUpdates[j][Len(syncUpdates[j])]]
    /\ j \in DOMAIN jobList
    /\ jobList' = [jobList EXCEPT ![j] =
                     UpdatedEntry(@, syncUpdates[j][Len(syncUpdates[j])])]
    /\ UNCHANGED <<callVars, jobQueue, jobQueueLock, jobDeps, parentState,
                   detachedJobs, chanClosed, pumpPc, workerPc, nSent, tickPc,
                   numUnfinished, mailVars, crashed>>
    /\ UNCHANGED extVars

\* The pump of job j receives the next descriptor of its channel and hands it
\* over the unbuffered tableUpdate channel; the consumer applies
\* tableActionUpdateJob. A missing table entry is a nil interface: GetError panics.
ConsumeUpdate(j) ==
    /\ ~crashed
    /\ pumpPc[j] = "run"
    /\ syncUpdates[j] # <<>>
    /\ syncUpdates' = [syncUpdates EXCEPT ![j] = Tail(@)]
    /\ pumpItem' = [pumpItem EXCEPT ![j] = Head(syncUpdates[j])]
    /\ IF j \in DOMAIN jobList
       THEN /\ jobList' = [jobList EXCEPT ![j] =
                             UpdatedEntry(@, Head(syncUpdates[j]))]
            /\ UNCHANGED crashed
       ELSE /\ crashed' = TRUE
            /\ UNCHANGED jobList
    /\ UNCHANGED <<callVars, jobQueue, jobQueueLock, jobDeps, parentState,
                   detachedJobs, chanClosed, pumpPc, workerPc, nSent, tickPc,
                   numUnfinished, mailVars>>
    /\ UNCHANGED extVars

\* tableActionFinishJob: the failure flag handed to SetParentFinished
FinishFailed(data) == GetError(data) # NoErr

\* The channel of job j is closed and drained: the pump sends FinishJob with
\* its last item and ends; the consumer applies tableActionFinishJob.
\* upd.data is nil when the worker sent nothing: upd.data.GetError() panics
\* after the entry has been marked finished. The pump's `item` goes with it.
ConsumeFinish(j) ==
    /\ ~crashed
    /\ pumpPc[j] = "run"
    /\ syncUpdates[j] = <<>>
    /\ chanClosed[j]
    /\ pumpPc' = [pumpPc EXCEPT ![j] = "done"]
    /\ pumpItem' = [pumpItem EXCEPT ![j] = NilItem]
    /\ IF j \notin DOMAIN jobList
       THEN /\ crashed' = TRUE
            /\ UNCHANGED <<jobList, parentState, mailSent>>
       ELSE /\ jobList' = [jobList EXCEPT ![j] = AsFinished(@)]
            /\ IF pumpItem[j] = NilItem
               THEN /\ crashed' = TRUE
                    /\ UNCHANGED <<parentState, mailSent>>
               ELSE /\ parentState' = SetParentFinished(parentState, j,
                                         FinishFailed(pumpItem[j]))
                    /\ mailSent' =
                         IF j \in DOMAIN notificationRecipients
                         THEN Append(mailSent,
                                [job |-> j, to |-> notificationRecipients[j]])
                         ELSE mailSent
                    /\ UNCHANGED crashed
    /\ UNCHANGED <<callVars, jobQueue, jobQueueLock, jobDeps, detachedJobs,
                   syncUpdates, chanClosed, workerPc, nSent, tickPc,
                   numUnfinished, notificationRecipients>>
    /\ UNCHANGED extVars

\* ------------------------------------------------------ shutdown, restart
\* createJobList: the test that puts an entry v on the list (line 82)
Listed(v, unfinishedOnly) == ~unfinishedOnly \/ ~IsFinished(v)
\* createJobList run with nothing else writing the table (as job IDs)
createJobList(jl, unfinishedOnly) ==
    {j \in DOMAIN jl : Listed(jl[j], unfinishedOnly)}
\* JobInfoList.Serialize and LoadJobList, as far as job IDs go: the file
\* holds the IDs of the list and loading returns the IDs of the file
Serialize(ids) == ids
LoadJobList(file) == file

coreVars == <<callVars, jobQueue, jobQueueLock, jobDeps, parentState, jobList,
              detachedJobs, chanVars, workerPc, nSent, tickPc, numUnfinished,
              mailVars, crashed>>

\* the ambient context is cancelled
CtxCancel ==
    /\ ~crashed
    /\ ~ctxDone
    /\ restarts < MaxRestarts
    /\ ctxDone' = TRUE
    /\ moments' = {createJobList(jobList, TRUE)}
    /\ UNCHANGED <<libVars, coreVars, statusFile, exitPc, snap, clearPc, restarts,
                   jobStop>>

\* goWaitExit: <-a.ctx.Done() returns and createJobList(true) starts to range
\* over a.jobList. It takes no lock, so the range runs entry by entry beside
\* the writers of the table: entries present at the start are visited
\* ("todo"), entries inserted later may be visited or not ("new").
SnapBegin ==
    /\ ~crashed
    /\ ctxDone
    /\ exitPc = "wait"
    /\ snap' = [j \in Jobs |-> IF j \in DOMAIN jobList THEN "todo" ELSE "new"]
    /\ exitPc' = IF DOMAIN jobList = {} THEN "serialize" ELSE "iter"
    /\ moments' = moments \cup {createJobList(jobList, TRUE)}
    /\ UNCHANGED <<libVars, coreVars, ctxDone, statusFile, clearPc, restarts, jobStop>>

\* one iteration of the range: entry j is appended if it is not finished
SnapRead(j) ==
    /\ ~crashed
    /\ exitPc = "iter"
    /\ j \in DOMAIN jobList
    /\ snap[j] \in {"todo", "new"}
    /\ snap' = [snap EXCEPT ![j] =
                  IF Listed(jobList[j], TRUE) THEN "in" ELSE "out"]
    /\ \E more \in BOOLEAN :
         exitPc' = IF \/ \E k \in DOMAIN jobList \ {j} : snap[k] = "todo"
                      \/ more /\ \E k \in DOMAIN jobList \ {j} : snap[k] = "new"
                   THEN "iter" ELSE "serialize"
    /\ moments' = moments \cup {createJobList(jobList, TRUE)}
    /\ UNCHANGED <<libVars, coreVars, ctxDone, statusFile, clearPc, restarts, jobStop>>

\* a goroutine is about to write a.jobList
WriterActive ==
    \/ tickPc = "admit"
    \/ \E j \in Jobs :
         pumpPc[j] = "run" /\ (syncUpdates[j] # <<>> \/ chanClosed[j])

\* the runtime finds the range of createJobList running beside a map write
\* ("concurrent map iteration and map write") and ends the process
SnapFatal ==
    /\ ~crashed
    /\ exitPc = "iter"
    /\ WriterActive
    /\ crashed' = TRUE
    /\ UNCHANGED <<callVars, jobQueue, jobQueueLock, jobDeps, parentState,
                   jobList, detachedJobs, chanVars, workerPc, nSent, tickPc,
                   numUnfinished, mailVars, extVars>>

\* jobList.Serialize(a.conf.StatusDataPath) (a write that succeeds)
SnapWrite ==
    /\ ~crashed
    /\ exitPc = "serialize"
    /\ statusFile' = Serialize({j \in Jobs : snap[j] = "in"})
    /\ exitPc' = "saved"
    /\ UNCHANGED <<libVars, coreVars, ctxDone, snap, clearPc, restarts, jobStop,
                   moments>>

\* The process ends after the snapshot and is started again: NewActions
\* builds an empty Actions and loads the status file into detachedJobs.
Restart ==
    /\ exitPc = "saved"
    /\ restarts < MaxRestarts
    /\ restarts' = restarts + 1
    /\ detachedJobs' = LoadJobList(statusFile)
    /\ callPc' = [j \in Jobs |-> "idle"]
    /\ callParent' = [j \in Jobs |-> NoParent]
    /\ jobQueue' = <<>>
    /\ jobQueueLock' = "free"
    /\ jobDeps' = <<>>
    /\ parentState' = [j \in Jobs |-> "unfinished"]
    /\ jobList' = <<>>
    /\ syncUpdates' = [j \in Jobs |-> <<>>]
    /\ chanClosed' = [j \in Jobs |-> FALSE]
    /\ pumpPc' = [j \in Jobs |-> "none"]
    /\ pumpItem' = [j \in Jobs |-> NilItem]
    /\ workerPc' = [j \in Jobs |-> "none"]
    /\ tickPc' = "wait"
    /\ numUnfinished' = 0
    /\ notificationRecipients' = <<>>
    /\ mailSent' = <<>>
    /\ crashed' = FALSE
    /\ ctxDone' = FALSE
    /\ exitPc' = "wait"
    /\ snap' = [j \in Jobs |-> "none"]
    /\ clearPc' = "run"
    /\ jobStop' = <<>>
    /\ moments' = {}
    /\ UNCHANGED <<libVars, nSent, statusFile>>

\* ClearDetachedJob(jobID): delete(a.detachedJobs, jobID)
ClearDetachedJob(j) ==
    /\ ~crashed
    /\ detachedJobs' = detachedJobs \ {j}
    /\ UNCHANGED <<callVars, jobQueue, jobQueueLock, jobDeps, parentState,
                   jobList, chanVars, workerPc, nSent, tickPc, numUnfinished,
                   mailVars, crashed, extVars>>

\* admit tick goroutine: case <-ctx.Done(): ticker.Stop(); return
TickStop ==
    /\ ~crashed
    /\ ctxDone
    /\ tickPc = "wait"
    /\ tickPc' = "stopped"
    /\ UNCHANGED <<callVars, jobQueue, jobQueueLock, jobDeps, parentState,
                   jobList, detachedJobs, chanVars, workerPc, nSent,
                   numUnfinished, mailVars, crashed, extVars>>

\* admit tick goroutine: case <-ticker2.C with the queue lock still held by
\* an earlier tick: jobQueueLock.Lock() does not return
TickBlock ==
    /\ ~crashed
    /\ tickPc = "wait"
    /\ jobQueueLock = "held"
    /\ tickPc' = "blocked"
    /\ UNCHANGED <<callVars, jobQueue, jobQueueLock, jobDeps, parentState,
                   jobList, detachedJobs, chanVars, workerPc, nSent,
                   numUnfinished, mailVars, crashed, extVars>>

\* hourly clear tick goroutine: case <-ctx.Done(): ticker.Stop(); return
ClearStop ==
    /\ ~crashed
    /\ ctxDone
    /\ clearPc = "run"
    /\ clearPc' = "stopped"
    /\ UNCHANGED <<libVars, coreVars, ctxDone, statusFile, exitPc, snap, restarts,
                   jobStop, moments>>

\* ------------------------------------------------------ external controls
\* FindJob(a.jobList, id): the entry with that ID, if there is one
FindJob(jl, id) == id \in DOMAIN jl
\* the table without the entry of id
Without(jl, ids) ==
    IF DOMAIN jl \ ids = {} THEN <<>> ELSE [k \in DOMAIN jl \ ids |-> jl[k]]
\* ClearFinishedJob(jobList, id): removes the entry if it is finished
ClearFinishedJob(jl, id) ==
    IF id \in DOMAIN jl /\ IsFinished(jl[id]) THEN Without(jl, {id}) ELSE jl
\* clearOldJobs(jobList): removes the entries that are old (any of them, time
\* is not part of the state)
clearOldJobs(jl, old) == Without(jl, old)

\* a Delete that also drops the entry from the table
DeleteRemoves(j) ==
    /\ ~crashed
    /\ FindJob(jobList, j)
    /\ Len(jobStop) < MaxStops
    /\ jobStop' = Append(jobStop, j)
    /\ jobList' = Without(jobList, {j})
    /\ UNCHANGED <<libVars, callVars, jobQueue, jobQueueLock, jobDeps, parentState,
                   detachedJobs, chanVars, workerPc, nSent, tickPc,
                   numUnfinished, mailVars, crashed, ctxDone, statusFile,
                   exitPc, snap, clearPc, restarts, moments>>

\* Delete: if FindJob finds the job, a.jobStop <- job.GetID() (the send
\* blocks while the channel takes no more); else a 404 response
Delete(j) ==
    /\ ~crashed
    /\ IF FindJob(jobList, j)
       THEN /\ Len(jobStop) < MaxStops
            /\ jobStop' = Append(jobStop, j)
       ELSE UNCHANGED jobStop
    /\ UNCHANGED <<libVars, coreVars, ctxDone, statusFile, exitPc, snap, clearPc,
                   restarts, moments>>

\* ClearIfFinished: ClearFinishedJob(a.jobList, id), called by the handler
ClearIfFinished(j) ==
    /\ ~crashed
    /\ jobList' = ClearFinishedJob(jobList, j)
    /\ UNCHANGED <<callVars, jobQueue, jobQueueLock, jobDeps, parentState,
                   detachedJobs, chanVars, workerPc, nSent, tickPc,
                   numUnfinished, mailVars, crashed, extVars>>

\* the hourly clear tick sends tableActionClearOldJobs and the consumer runs
\* clearOldJobs(ans.jobList) under jobListLock
ClearOldJobs ==
    /\ ~crashed
    /\ clearPc = "run"
    /\ \E old \in SUBSET DOMAIN jobList : jobList' = clearOldJobs(jobList, old)
    /\ UNCHANGED <<callVars, jobQueue, jobQueueLock, jobDeps, parentState,
                   detachedJobs, chanVars, workerPc, nSent, tickPc,
                   numUnfinished, mailVars, crashed, extVars>>

\* a handler reads a.jobList (FindJob, ClearFinishedJob) without jobListLock
\* while another goroutine writes the map: the runtime may end the process
\* ("concurrent map read and map write")
HandlerFatal ==
    /\ ~crashed
    /\ WriterActive
    /\ crashed' = TRUE
    /\ UNCHANGED <<callVars, jobQueue, jobQueueLock, jobDeps, parentState,
                   jobList, detachedJobs, chanVars, workerPc, nSent, tickPc,
                   numUnfinished, mailVars, extVars>>

\* ----------------------------------------------------- notification roster
Range(s) == {s[i] : i \in 1..Len(s)}
\* append(recipients[:i], recipients[i+1:]...) for the first i holding addr
RemoveFirst(s, addr) ==
    IF addr \notin Range(s) THEN s
    ELSE LET i == CHOOSE k \in 1..Len(s) :
                    s[k] = addr /\ \A m \in 1..(k - 1) : s[m] # addr
         IN SubSeq(s, 1, i - 1) \o SubSeq(s, i + 1, Len(s))

\* an AddNotification that appends without looking for the address
AddNotificationNoCheck(j, addr) ==
    /\ ~crashed
    /\ IF FindJob(jobList, j)
       THEN notificationRecipients' =
              Put(notificationRecipients, j,
                  IF j \notin DOMAIN notificationRecipients
                  THEN <<addr>>
                  ELSE Append(notificationRecipients[j], addr))
       ELSE UNCHANGED notificationRecipients
    /\ UNCHANGED <<callVars, jobQueue, jobQueueLock, jobDeps, parentState,
                   jobList, detachedJobs, chanVars, workerPc, nSent, tickPc,
                   numUnfinished, mailSent, crashed, extVars>>

\* AddNotification: a new roster of one address, or the address appended
\* unless the roster has it; 404 if FindJob finds no job
AddNotification(j, addr) ==
    /\ ~crashed
    /\ IF FindJob(jobList, j)
       THEN notificationRecipients' =
              Put(notificationRecipients, j,
                  IF j \notin DOMAIN notificationRecipients
                  THEN <<addr>>
                  ELSE IF addr \in Range(notificationRecipients[j])
                       THEN notificationRecipients[j]
                       ELSE Append(notificationRecipients[j], addr))
       ELSE UNCHANGED notificationRecipients
    /\ UNCHANGED <<callVars, jobQueue, jobQueueLock, jobDeps, parentState,
                   jobList, detachedJobs, chanVars, workerPc, nSent, tickPc,
                   numUnfinished, mailSent, crashed, extVars>>

\* RemoveNotification: the first occurrence of the address is cut out of the
\* job's roster, if the job has one; 404 if FindJob finds no job
RemoveNotification(j, addr) ==
    /\ ~crashed
    /\ IF FindJob(jobList, j) /\ j \in DOMAIN notificationRecipients
       THEN notificationRecipients' =
              [notificationRecipients EXCEPT ![j] = RemoveFirst(@, addr)]
       ELSE UNCHANGED notificationRecipients
    /\ UNCHANGED <<callVars, jobQueue, jobQueueLock, jobDeps, parentState,
                   jobList, detachedJobs, chanVars, workerPc, nSent, tickPc,
                   numUnfinished, mailSent, crashed, extVars>>

\* ------------------------------------------- LastUnfinishedJobOfType
\* the variables of the job scheduler: the library objects leave them alone
actionsVars == <<coreVars, ctxDone, statusFile, exitPc, snap, clearPc,
                 restarts, jobStop, moments>>

\* job types and start times of the entries the scan is run over
JobTypes == {"liveattrs", "ngram"}
StartTimes == {1, 2}
\* a table entry as far as the scan looks at it: GetCorpus, GetType,
\* GetStartDT, IsFinished
TypedDescriptors(id) ==
    [id : {id}, corpus : {"c1", "c2"}, type : JobTypes, start : StartTimes,
     fin : BOOLEAN]
\* the tables the scan is run over: any entries under any of the job IDs
TypedJobLists ==
    UNION {{jl \in [S -> UNION {TypedDescriptors(j) : j \in S}] :
                \A j \in S : jl[j].id = j} : S \in SUBSET Jobs}

GetCorpus(d) == d.corpus
GetType(d) == d.type
GetStartDT(d) == d.start
\* time.Time.Before
Before(t, u) == t < u

\* the orders in which a range may visit the keys of a map
RangeOrders(S) == {o \in [1..Cardinality(S) -> S] : Range(o) = S}

\* a loop body that keeps the latest-started matching entry
KeepLatest(tmp, v, corpusID, jobType) ==
    IF /\ GetCorpus(v) = corpusID
       /\ GetType(v) = jobType
       /\ ~IsFinished(v)
       /\ (tmp = NilItem \/ Before(GetStartDT(tmp), GetStartDT(v)))
    THEN v
    ELSE tmp

\* the body of the loop: tmp after entry v has been looked at
KeepOldest(tmp, v, corpusID, jobType) ==
    IF /\ GetCorpus(v) = corpusID
       /\ GetType(v) = jobType
       /\ ~IsFinished(v)
       /\ (tmp = NilItem \/ Before(GetStartDT(v), GetStartDT(tmp)))
    THEN v
    ELSE tmp

\* for _, v := range a.jobList, visiting the keys in the given order
RECURSIVE ScanJobList(_, _, _, _, _)
ScanJobList(jl, order, corpusID, jobType, tmp) ==
    IF order = <<>>
    THEN tmp
    ELSE ScanJobList(jl, Tail(order), corpusID, jobType,
                     KeepOldest(tmp, jl[Head(order)], corpusID, jobType))

\* LastUnfinishedJobOfType(corpusID, jobType): the table is read as it is
LastUnfinishedJobOfType(corpusID, jobType) ==
    /\ \E order \in RangeOrders(DOMAIN jobList) :
         LET tmp == ScanJobList(jobList, order, corpusID, jobType, NilItem)
         IN  ret' = [op |-> "LastUnfinishedJobOfType", corpusID |-> corpusID,
                     jobType |-> jobType, info |-> tmp, found |-> tmp # NilItem]
    /\ UNCHANGED <<actionsVars, qc, lcache, nCalls, qcPc, attrValues>>

\* ----------------------------------------------------- EmptyQueryCache
\* the aligned corpora of a query (query.Payload.Aligned)
AlignedLists ==
    {<<>>, <<"c1">>, <<"c2", "c3">>}
\* the attribute filter of a query (query.Payload.Attrs): empty or not
AttrFilters == {<<>>, [doc_genre |-> "fiction"]}
Payloads == [Attrs : AttrFilters, Aligned : AlignedLists]
\* cached answers (*response.QueryAns) and the nil answer
Answers == {"ans"}
NilAns == "nil"

\* strings.Join
RECURSIVE Join(_, _)
Join(elems, sep) ==
    IF elems = <<>> THEN ""
    ELSE IF Len(elems) = 1 THEN elems[1]
    ELSE elems[1] \o sep \o Join(Tail(elems), sep)

\* a key made of the primary corpus alone
mkKeyCorpusOnly(corpusID, aligned) == corpusID

mkKey(corpusID, aligned) == Join(Append(aligned, corpusID), ":")

\* len(qry.Attrs)
NumAttrs(qry) == Cardinality(DOMAIN qry.Attrs)

\* a Get that looks the key up whatever the attribute filter is
GetAnsAnyQuery(cache, corpusID, qry) ==
    IF mkKey(corpusID, qry.Aligned) \in DOMAIN cache.data
    THEN cache.data[mkKey(corpusID, qry.Aligned)]
    ELSE NilAns

\* what Get(corpusID, qry) returns
GetAns(cache, corpusID, qry) ==
    IF NumAttrs(qry) > 0
    THEN NilAns
    ELSE IF mkKey(corpusID, qry.Aligned) \in DOMAIN cache.data
         THEN cache.data[mkKey(corpusID, qry.Aligned)]
         ELSE NilAns

\* EmptyQueryCache.Get: reads qc.data, takes no lock
Get(corpusID, qry) ==
    /\ ret' = [op |-> "Get", corpusID |-> corpusID, qry |-> qry,
               ans |-> GetAns(qc, corpusID, qry)]
    /\ UNCHANGED <<actionsVars, qc, lcache, nCalls, qcPc, attrValues>>

setKeyCorpusDependency(deps, corpusID, key) ==
    IF corpusID \notin DOMAIN deps
    THEN (corpusID :> <<key>>) @@ deps
    ELSE IF key \in Range(deps[corpusID])
         THEN deps
         ELSE [deps EXCEPT ![corpusID] = Append(@, key)]

\* for _, alignedCorpusID := range qry.Aligned { setKeyCorpusDependency }
RECURSIVE setAlignedDependencies(_, _, _)
setAlignedDependencies(deps, aligned, key) ==
    IF aligned = <<>>
    THEN deps
    ELSE setAlignedDependencies(setKeyCorpusDependency(deps, Head(aligned), key),
                                Tail(aligned), key)

\* a Set that indexes the key under the primary corpus only
SetCacheNoAligned(cache, corpusID, qry, value) ==
    IF NumAttrs(qry) > 0
    THEN cache
    ELSE LET cKey == mkKey(corpusID, qry.Aligned)
         IN  [data |-> Put(cache.data, cKey, value),
              corpKeyDeps |-> setKeyCorpusDependency(cache.corpKeyDeps, corpusID, cKey)]

\* the cache after Set(corpusID, qry, value)
SetCache(cache, corpusID, qry, value) ==
    IF NumAttrs(qry) > 0
    THEN cache
    ELSE LET cKey == mkKey(corpusID, qry.Aligned)
         IN  [data |-> Put(cache.data, cKey, value),
              corpKeyDeps |->
                  setAlignedDependencies(
                      setKeyCorpusDependency(cache.corpKeyDeps, corpusID, cKey),
                      qry.Aligned, cKey)]

\* EmptyQueryCache.Set
Set(corpusID, qry, value) ==
    /\ nCalls < MaxCalls
    /\ nCalls' = nCalls + 1
    /\ qc' = SetCache(qc, corpusID, qry, value)
    /\ ret' = [op |-> "Set"]
    /\ UNCHANGED <<actionsVars, lcache, qcPc, attrValues>>

\* a pruning that leaves every bucket as it is
pruneKeyNowhere(deps, key) == deps

\* pruneKeyInDeps: every bucket without the key
pruneKeyInDeps(deps, key) ==
    IF DOMAIN deps = {}
    THEN <<>>
    ELSE [corpID \in DOMAIN deps |-> SelectSeq(deps[corpID], LAMBDA k : k # key)]

\* for _, key := range cInv { delete(qc.data, key); pruneKeyInDeps(key) }
RECURSIVE delKeys(_, _)
delKeys(cache, cInv) ==
    IF cInv = <<>>
    THEN cache
    ELSE delKeys([data |-> Without(cache.data, {Head(cInv)}),
                  corpKeyDeps |-> pruneKeyInDeps(cache.corpKeyDeps, Head(cInv))],
                 Tail(cInv))

\* a Del that drops the bucket of the corpus and keeps the entries
DelCacheBucketOnly(cache, corpusID) ==
    [cache EXCEPT !.corpKeyDeps = Without(cache.corpKeyDeps, {corpusID})]

\* the cache after Del(corpusID)
DelCache(cache, corpusID) ==
    LET cInv == IF corpusID \in DOMAIN cache.corpKeyDeps
                THEN cache.corpKeyDeps[corpusID]
                ELSE <<>>
        pruned == delKeys(cache, cInv)
    IN  [pruned EXCEPT !.corpKeyDeps = Without(pruned.corpKeyDeps, {corpusID})]

\* EmptyQueryCache.Del
Del(corpusID) ==
    /\ nCalls < MaxCalls
    /\ nCalls' = nCalls + 1
    /\ qc' = DelCache(qc, corpusID)
    /\ ret' = [op |-> "Del", corpusID |-> corpusID]
    /\ UNCHANGED <<actionsVars, lcache, qcPc, attrValues>>

\* ------------------------------------------ LiveAttrsBuildConfProvider
\* corpora the provider is asked for
ConfCorpora == {"c1", "c2"}
\* a configuration (vteconf.VTEConf) as far as the provider looks at it
VTEConfs == [Corpus : ConfCorpora, DB : DBConfs]
\* outcomes of the file-system calls of one method call
IOOutcomes == {"ok", "ioError"}
NilConf == "nil"
ErrorNoSuchConfig == "ErrorNoSuchConfig"

\* json.MarshalIndent(data): the text of the configuration file
Marshal(conf) == <<conf.Corpus, conf.DB.Type, conf.DB.Name>>
\* LoadConf(confPath): the configuration read back from the text
LoadConf(text) == [Corpus |-> text[1], DB |-> [Type |-> text[2], Name |-> text[3]]]
\* fs.IsFile(path.Join(confDirPath, corpname + ".json"))
IsFile(p, corpname) == corpname \in DOMAIN p.files

\* v.DB = *lcache.globalDBConf when the global section is of type mysql
WithGlobalDB(p, v) ==
    IF p.globalDBConf.Type = "mysql" THEN [v EXCEPT !.DB = p.globalDBConf] ELSE v

\* loadFromFile(corpname, storeToCache): the provider afterwards, the
\* configuration and the error returned. The cache holds the pointer v, so it
\* sees the DB section assigned after the entry was stored.
loadFromFile(p, corpname, storeToCache, io) ==
    IF io = "ioError"
    THEN [p |-> p, conf |-> NilConf, err |-> "ioError"]
    ELSE IF IsFile(p, corpname)
    THEN LET v == WithGlobalDB(p, LoadConf(p.files[corpname]))
         IN  [p |-> IF storeToCache
                    THEN [p EXCEPT !.data = Put(p.data, corpname, v)]
                    ELSE p,
              conf |-> v, err |-> NoErr]
    ELSE [p |-> p, conf |-> NilConf, err |-> ErrorNoSuchConfig]

\* a Get that answers a missing configuration with a new default one
GetConfCreating(p, corpname, io) ==
    IF corpname \in DOMAIN p.data
    THEN [p |-> p, conf |-> p.data[corpname], err |-> NoErr]
    ELSE LET v == [Corpus |-> corpname, DB |-> p.globalDBConf]
         IN  [p |-> [p EXCEPT !.data = Put(p.data, corpname, v)],
              conf |-> v, err |-> NoErr]

\* LiveAttrsBuildConfProvider.Get: provider afterwards and returned values
GetConf(p, corpname, io) ==
    IF corpname \in DOMAIN p.data
    THEN [p |-> p, conf |-> p.data[corpname], err |-> NoErr]
    ELSE loadFromFile(p, corpname, TRUE, io)

ProviderGet(corpname, io) ==
    /\ nCalls < MaxCalls
    /\ nCalls' = nCalls + 1
    /\ LET r == GetConf(lcache, corpname, io)
       IN  /\ lcache' = r.p
           /\ ret' = [op |-> "Get", corpname |-> corpname, conf |-> r.conf,
                      err |-> r.err]
    /\ UNCHANGED <<actionsVars, qc, qcPc, attrValues>>

\* LiveAttrsBuildConfProvider.Save: the file gets the configuration as it was
\* passed in; the cached one gets the global DB section if its own is mysql
Save(data, io) ==
    /\ nCalls < MaxCalls
    /\ nCalls' = nCalls + 1
    /\ IF io = "ioError"
       THEN /\ ret' = [op |-> "Save", corpname |-> data.Corpus, err |-> "ioError"]
            /\ UNCHANGED lcache
       ELSE /\ lcache' =
                [lcache EXCEPT
                    !.files = Put(@, data.Corpus, Marshal(data)),
                    !.data = Put(@, data.Corpus,
                                 IF data.DB.Type = "mysql"
                                 THEN [data EXCEPT !.DB = lcache.globalDBConf]
                                 ELSE data)]
            /\ ret' = [op |-> "Save", corpname |-> data.Corpus, err |-> NoErr]
    /\ UNCHANGED <<actionsVars, qc, qcPc, attrValues>>

\* an Uncache that removes the file as well
UncachedWithFile(p, corpusID) ==
    [p EXCEPT !.data = Without(@, {corpusID}), !.files = Without(@, {corpusID})]

\* the provider after Uncache(corpusID)
Uncached(p, corpusID) == [p EXCEPT !.data = Without(@, {corpusID})]

\* LiveAttrsBuildConfProvider.Uncache
Uncache(corpusID) ==
    /\ nCalls < MaxCalls
    /\ nCalls' = nCalls + 1
    /\ lcache' = Uncached(lcache, corpusID)
    /\ ret' = [op |-> "Uncache", corpname |-> corpusID,
               ok |-> corpusID \in DOMAIN lcache.data]
    /\ UNCHANGED <<actionsVars, qc, qcPc, attrValues>>

\* LiveAttrsBuildConfProvider.Clear: the cached entry goes first; the file
\* stays if fs.IsFile or os.Remove fails
Clear(corpusID, io) ==
    /\ nCalls < MaxCalls
    /\ nCalls' = nCalls + 1
    /\ IF io = "ioError"
       THEN /\ lcache' = [lcache EXCEPT !.data = Without(@, {corpusID})]
            /\ ret' = [op |-> "Clear", corpname |-> corpusID, err |-> "ioError"]
       ELSE /\ lcache' = [lcache EXCEPT !.data = Without(@, {corpusID}),
                                        !.files = Without(@, {corpusID})]
            /\ ret' = [op |-> "Clear", corpname |-> corpusID, err |-> NoErr]
    /\ UNCHANGED <<actionsVars, qc, qcPc, attrValues>>

\* ------------------------------------------- a further parent for a job
\* A handler calls EqueueJobAfter once more with the initial status of job j
\* and another parent p: the job is put on the queue again and jobDeps.Add
\* records a second edge for its ID.
CallEnqueueAgain(j, p) ==
    /\ ~crashed
    /\ callPc[j] = "done"
    /\ callParent[j] # NoParent
    /\ p \in {q \in Jobs \ {j} : callPc[q] = "done"}
    /\ HasDeps(jobDeps, j)
    /\ p \notin jobDeps[j]
    /\ callPc' = [callPc EXCEPT ![j] = "lock"]
    /\ callParent' = [callParent EXCEPT ![j] = p]
    /\ UNCHANGED <<jobQueue, jobQueueLock, jobDeps, parentState, jobList,
                   detachedJobs, chanVars, workerPc, nSent, tickPc,
                   numUnfinished, mailVars, crashed>>
    /\ UNCHANGED extVars

\* ------------------------------------- EmptyQueryCache, concurrent calls
\* qc.lock is held: a thread is between qc.lock.Lock() and qc.lock.Unlock()
LockHeld == \E t \in CacheThreads : qcPc[t].op \in {"Set", "Del"}

\* a write of qc.data by thread t: the Get calls that are reading at that
\* moment have raced with it
AfterWrite(t) ==
    [u \in CacheThreads |->
        IF u = t THEN NoCall
        ELSE IF qcPc[u].op = "Get" THEN [qcPc[u] EXCEPT !.raced = TRUE]
        ELSE qcPc[u]]

\* Set, up to qc.lock.Lock(): a query with a filter returns before the lock
SetLock(t, corpusID, qry, value) ==
    /\ ~crashed
    /\ qcPc[t] = NoCall
    /\ nCalls < MaxCalls
    /\ nCalls' = nCalls + 1
    /\ IF NumAttrs(qry) > 0
       THEN UNCHANGED qcPc
       ELSE /\ ~LockHeld
            /\ qcPc' = [qcPc EXCEPT ![t] =
                          [op |-> "Set", corpusID |-> corpusID, qry |-> qry,
                           value |-> value]]
    /\ UNCHANGED <<actionsVars, qc, lcache, ret, attrValues>>

\* Set, from the write of qc.data to qc.lock.Unlock()
SetUnlock(t) ==
    /\ ~crashed
    /\ qcPc[t].op = "Set"
    /\ qc' = SetCache(qc, qcPc[t].corpusID, qcPc[t].qry, qcPc[t].value)
    /\ qcPc' = AfterWrite(t)
    /\ ret' = [op |-> "Set"]
    /\ UNCHANGED <<actionsVars, lcache, nCalls, attrValues>>

\* Del, up to qc.lock.Lock()
DelLock(t, corpusID) ==
    /\ ~crashed
    /\ qcPc[t] = NoCall
    /\ nCalls < MaxCalls
    /\ nCalls' = nCalls + 1
    /\ ~LockHeld
    /\ qcPc' = [qcPc EXCEPT ![t] = [op |-> "Del", corpusID |-> corpusID]]
    /\ UNCHANGED <<actionsVars, qc, lcache, ret, attrValues>>

\* Del, from the deletions to qc.lock.Unlock()
DelUnlock(t) ==
    /\ ~crashed
    /\ qcPc[t].op = "Del"
    /\ qc' = DelCache(qc, qcPc[t].corpusID)
    /\ qcPc' = AfterWrite(t)
    /\ ret' = [op |-> "Del", corpusID |-> qcPc[t].corpusID]
    /\ UNCHANGED <<actionsVars, lcache, nCalls, attrValues>>

\* Get starts to read qc.data[mkKey(corpusID, qry.Aligned)]; it takes no lock
GetBegin(t, corpusID, qry) ==
    /\ ~crashed
    /\ qcPc[t] = NoCall
    /\ qcPc' = [qcPc EXCEPT ![t] =
                  [op |-> "Get", corpusID |-> corpusID, qry |-> qry,
                   seen |-> GetAns(qc, corpusID, qry), raced |-> FALSE]]
    /\ UNCHANGED <<actionsVars, qc, lcache, ret, nCalls, attrValues>>

\* Get returns. A read of the map that ran while Set or Del wrote it is a
\* data race: it yields the answer from before or from after the write, or
\* the runtime stops the process (concurrent map read and map write).
GetEnd(t) ==
    /\ ~crashed
    /\ qcPc[t].op = "Get"
    /\ qcPc' = [qcPc EXCEPT ![t] = NoCall]
    /\ \/ /\ \E ans \in IF qcPc[t].raced
                        THEN {qcPc[t].seen,
                              GetAns(qc, qcPc[t].corpusID, qcPc[t].qry)}
                        ELSE {GetAns(qc, qcPc[t].corpusID, qcPc[t].qry)} :
                 ret' = [op |-> "Get", corpusID |-> qcPc[t].corpusID,
                         qry |-> qcPc[t].qry, ans |-> ans]
          /\ UNCHANGED crashed
       \/ /\ qcPc[t].raced
          /\ crashed' = TRUE
          /\ UNCHANGED ret
    /\ UNCHANGED <<callVars, jobQueue, jobQueueLock, jobDeps, parentState,
                   jobList, detachedJobs, chanVars, workerPc, nSent, tickPc,
                   numUnfinished, mailVars>>
    /\ UNCHANGED <<ctxDone, statusFile, exitPc, snap, clearPc, restarts,
                   jobStop, moments>>
    /\ UNCHANGED <<qc, lcache, nCalls, attrValues>>

\* ------------------------------------------------------- groupBibItems
\* labels and position counts of the listed values of the bibliography
\* label attribute, and the longest list that is grouped
BibLabels == {"x", "y"}
PosCounts == {1, 2}
MaxItems == 3

\* the i-th response.ListedValue getAttrValues collects: the values are keyed
\* by their ID, Grouping starts at 1, Count is the sum of the rows' Poscount
ListedValue(i, label, count) ==
    [ID |-> "id" \o ToString(i), Label |-> label, Count |-> count,
     Grouping |-> 1]

\* data.AttrValues[bibLabel] when groupBibItems is called: a list of values
\* with different IDs, or a plain number of positions (not a list)
BibInputs ==
    {[kind |-> "int", items |-> <<>>]} \cup
    UNION {{[kind |-> "list",
             items |-> [i \in 1..n |-> ListedValue(i, f[i][1], f[i][2])]] :
               f \in [1..n -> BibLabels \X PosCounts]} : n \in 0..MaxItems}

\* the body of the loop over tEntry. grouping holds pointers: val is the
\* entry stored under the label, so `Count += val.Count` adds the stored
\* entry's own Count to itself.
groupItem(grouping, item) ==
    LET merged ==
            IF item.Label \in DOMAIN grouping
            THEN [grouping EXCEPT ![item.Label] =
                    [@ EXCEPT !.Count = @ + grouping[item.Label].Count,
                              !.Grouping = @ + 1]]
            ELSE Put(grouping, item.Label, item)
    IN  IF merged[item.Label].Grouping > 1
        THEN [merged EXCEPT ![item.Label].ID = "@" \o item.Label]
        ELSE merged

\* for _, item := range tEntry { ... }
RECURSIVE groupItems(_, _)
groupItems(grouping, tEntry) ==
    IF tEntry = <<>>
    THEN grouping
    ELSE groupItems(groupItem(grouping, Head(tEntry)), Tail(tEntry))

\* groupBibItems(data, bibLabel): the list is replaced by the values of the
\* grouping map, in the order the range over the map happens to take; an
\* entry that is not a list is left alone
groupBibItems ==
    /\ ret = NoCall
    /\ ret' = [op |-> "groupBibItems"]
    /\ IF attrValues.kind # "list"
       THEN UNCHANGED attrValues
       ELSE LET grouping == groupItems(<<>>, attrValues.items)
            IN  \E out \in RangeOrders({grouping[l] : l \in DOMAIN grouping}) :
                    attrValues' = [kind |-> "list", items |-> out]
    /\ UNCHANGED <<actionsVars, qc, lcache, nCalls, qcPc>>

\* ------------------------------------------------------- specifications
Next ==
    \/ \E j \in Jobs : \E p \in Jobs \cup {NoParent} : CallEnqueue(j, p)
    \/ \E j \in Jobs : LockedEnqueue(j)
    \/ \E j \in Jobs : EqueueJobAfterAdd(j)
    \/ TickLock
    \/ TickAdmit
    \/ \E j \in Jobs : \E d \in Descriptors : WorkerSend(j, d)
    \/ \E j \in Jobs : WorkerClose(j)
    \/ \E j \in Jobs : ConsumeUpdate(j)
    \/ \E j \in Jobs : ConsumeFinish(j)

Spec == Init /\ [][Next]_vars

\* Scheduling the runtime guarantees: a goroutine that can take a step takes
\* it; a caller waiting for the queue mutex gets it if it is free again and
\* again (sync.Mutex hands a starving waiter the lock); workers return.
\* Neither a handler's call nor a worker's progress update is ever forced.
Fairness ==
    /\ \A j \in Jobs : SF_vars(LockedEnqueue(j))
    /\ \A j \in Jobs : WF_vars(EqueueJobAfterAdd(j))
    /\ WF_vars(TickLock)
    /\ WF_vars(TickAdmit)
    /\ \A j \in Jobs : WF_vars(WorkerClose(j))
    /\ \A j \in Jobs : WF_vars(ConsumeUpdate(j))
    /\ \A j \in Jobs : WF_vars(ConsumeFinish(j))

\* The runs in which nothing was found in the status file and every worker
\* sends progress descriptors that are not marked finished.
FairInit == Init /\ detachedJobs = {}

FairNext ==
    \/ \E j \in Jobs : \E p \in Jobs \cup {NoParent} : CallEnqueue(j, p)
    \/ \E j \in Jobs : LockedEnqueue(j)
    \/ \E j \in Jobs : EqueueJobAfterAdd(j)
    \/ TickLock
    \/ TickAdmit
    \/ \E j \in Jobs : \E d \in ProgressDescriptors : WorkerSend(j, d)
    \/ \E j \in Jobs : WorkerClose(j)
    \/ \E j \in Jobs : ConsumeUpdate(j)
    \/ \E j \in Jobs : ConsumeFinish(j)

FairSpec == FairInit /\ [][FairNext]_vars /\ Fairness

\* The runs in which every descriptor a worker sends carries its emission
\* number; the workers of these runs report progress only.
NumberedDescriptors == [err : {NoErr, WorkerErr}, fin : {FALSE}, seq : {nSent + 1}]

OrderNext ==
    \/ \E j \in Jobs : \E p \in Jobs \cup {NoParent} : CallEnqueue(j, p)
    \/ \E j \in Jobs : LockedEnqueue(j)
    \/ \E j \in Jobs : EqueueJobAfterAdd(j)
    \/ TickLock
    \/ TickAdmit
    \/ \E j \in Jobs : \E d \in NumberedDescriptors : WorkerSend(j, d)
    \/ \E j \in Jobs : WorkerClose(j)
    \/ \E j \in Jobs : ConsumeUpdate(j)
    \/ \E j \in Jobs : ConsumeFinish(j)

OrderSpec == FairInit /\ [][OrderNext]_vars

\* The runs of a process that is shut down and started again: two jobs
\* without parents, workers that report progress.
TwoJobs == {"a", "b"}

ExitNext ==
    \/ \E j \in TwoJobs : CallEnqueue(j, NoParent)
    \/ \E j \in Jobs : LockedEnqueue(j)
    \/ TickLock
    \/ TickAdmit
    \/ \E j \in Jobs : \E d \in ProgressDescriptors : WorkerSend(j, d)
    \/ \E j \in Jobs : WorkerClose(j)
    \/ \E j \in Jobs : ConsumeUpdate(j)
    \/ \E j \in Jobs : ConsumeFinish(j)
    \/ CtxCancel
    \/ SnapBegin
    \/ \E j \in Jobs : SnapRead(j)
    \/ SnapFatal
    \/ SnapWrite
    \/ Restart
    \/ \E j \in Jobs : ClearDetachedJob(j)

ExitSpec == Init /\ [][ExitNext]_vars

\* The runs in which the ambient context is cancelled and the goroutines of
\* NewActions are scheduled fairly: jobs without parents, workers that
\* report progress. A select whose ctx.Done() case is ready again and again
\* takes it in the end.
StopNext ==
    \/ \E j \in Jobs : CallEnqueue(j, NoParent)
    \/ \E j \in Jobs : LockedEnqueue(j)
    \/ TickLock
    \/ TickAdmit
    \/ \E j \in Jobs : \E d \in ProgressDescriptors : WorkerSend(j, d)
    \/ \E j \in Jobs : WorkerClose(j)
    \/ \E j \in Jobs : ConsumeUpdate(j)
    \/ \E j \in Jobs : ConsumeFinish(j)
    \/ CtxCancel
    \/ TickStop
    \/ TickBlock
    \/ ClearStop

\* The runs with the external controls of a job: two jobs without parents
\* (the third ID stays unknown to the table), workers that report progress.
CtlNext ==
    \/ \E j \in TwoJobs : CallEnqueue(j, NoParent)
    \/ \E j \in Jobs : LockedEnqueue(j)
    \/ TickLock
    \/ TickAdmit
    \/ \E j \in Jobs : \E d \in ProgressDescriptors : WorkerSend(j, d)
    \/ \E j \in Jobs : WorkerClose(j)
    \/ \E j \in Jobs : ConsumeUpdate(j)
    \/ \E j \in Jobs : ConsumeFinish(j)
    \/ \E j \in Jobs : Delete(j)
    \/ \E j \in Jobs : ClearIfFinished(j)
    \/ ClearOldJobs
    \/ HandlerFatal

CtlSpec == FairInit /\ [][CtlNext]_vars

\* The runs with the notification handlers, called one after the other for
\* two jobs without parents.
NotifNext ==
    \/ \E j \in TwoJobs : CallEnqueue(j, NoParent)
    \/ \E j \in Jobs : LockedEnqueue(j)
    \/ TickLock
    \/ TickAdmit
    \/ \E j \in Jobs : \E addr \in Addresses : AddNotification(j, addr)
    \/ \E j \in Jobs : \E addr \in Addresses : RemoveNotification(j, addr)

NotifSpec == FairInit /\ [][NotifNext]_vars

\* The runs in which rosters are edited while jobs run and finish: two jobs
\* without parents, workers that report progress, two addresses.
MailAddresses == {"x", "y"}

MailNext ==
    \/ \E j \in TwoJobs : CallEnqueue(j, NoParent)
    \/ \E j \in Jobs : LockedEnqueue(j)
    \/ TickLock
    \/ TickAdmit
    \/ \E j \in Jobs : \E d \in ProgressDescriptors : WorkerSend(j, d)
    \/ \E j \in Jobs : WorkerClose(j)
    \/ \E j \in Jobs : ConsumeUpdate(j)
    \/ \E j \in Jobs : ConsumeFinish(j)
    \/ \E j \in TwoJobs : \E addr \in MailAddresses : AddNotification(j, addr)
    \/ \E j \in TwoJobs : \E addr \in MailAddresses : RemoveNotification(j, addr)

MailSpec == FairInit /\ [][MailNext]_vars

StopSpec ==
    /\ FairInit
    /\ [][StopNext]_vars
    /\ Fairness
    /\ SF_vars(TickStop)
    /\ WF_vars(ClearStop)

\* The calls of LastUnfinishedJobOfType over any table of typed entries.
ScanInit ==
    /\ jobList \in TypedJobLists
    /\ callPc = [j \in Jobs |-> "idle"]
    /\ callParent = [j \in Jobs |-> NoParent]
    /\ jobQueue = <<>>
    /\ jobQueueLock = "free"
    /\ jobDeps = <<>>
    /\ parentState = [j \in Jobs |-> "unfinished"]
    /\ detachedJobs = {}
    /\ syncUpdates = [j \in Jobs |-> <<>>]
    /\ chanClosed = [j \in Jobs |-> FALSE]
    /\ pumpPc = [j \in Jobs |-> "none"]
    /\ pumpItem = [j \in Jobs |-> NilItem]
    /\ workerPc = [j \in Jobs |-> "none"]
    /\ nSent = 0
    /\ tickPc = "wait"
    /\ numUnfinished = 0
    /\ notificationRecipients = <<>>
    /\ mailSent = <<>>
    /\ crashed = FALSE
    /\ ctxDone = FALSE
    /\ statusFile = {}
    /\ exitPc = "wait"
    /\ snap = [j \in Jobs |-> "none"]
    /\ clearPc = "run"
    /\ restarts = 0
    /\ jobStop = <<>>
    /\ moments = {}
    /\ qc = NewEmptyQueryCache
    /\ lcache = NewLiveAttrsBuildConfProvider([Type |-> "mysql", Name |-> "global"])
    /\ ret = NoCall
    /\ nCalls = 0
    /\ qcPc = [t \in CacheThreads |-> NoCall]
    /\ attrValues = NoValues

ScanNext ==
    \E corpusID \in {"c1", "c2"} : \E jobType \in JobTypes :
        LastUnfinishedJobOfType(corpusID, jobType)

ScanSpec == ScanInit /\ [][ScanNext]_vars

\* The calls of one EmptyQueryCache, one after the other.
CacheNext ==
    \/ \E corpusID \in Corpora : \E qry \in Payloads : \E value \in Answers :
           Set(corpusID, qry, value)
    \/ \E corpusID \in Corpora : Del(corpusID)
    \/ \E corpusID \in Corpora : \E qry \in Payloads : Get(corpusID, qry)

CacheSpec == FairInit /\ [][CacheNext]_vars

\* The calls of one configuration provider, one after the other, for either
\* type of global DB section.
ProviderInit ==
    /\ ActionsInit
    /\ detachedJobs = {}
    /\ qc = NewEmptyQueryCache
    /\ \E globalDBConf \in GlobalDBConfs :
           lcache = NewLiveAttrsBuildConfProvider(globalDBConf)
    /\ ret = NoCall
    /\ nCalls = 0
    /\ qcPc = [t \in CacheThreads |-> NoCall]
    /\ attrValues = NoValues

ProviderNext ==
    \/ \E corpname \in ConfCorpora : \E io \in IOOutcomes : ProviderGet(corpname, io)
    \/ \E data \in VTEConfs : \E io \in IOOutcomes : Save(data, io)
    \/ \E corpusID \in ConfCorpora : Uncache(corpusID)
    \/ \E corpusID \in ConfCorpora : \E io \in IOOutcomes : Clear(corpusID, io)

ProviderSpec == ProviderInit /\ [][ProviderNext]_vars

\* The runs of FairSpec without its scheduling conditions: jobs with and
\* without parents, workers that report progress.
QueueSpec == FairInit /\ [][FairNext]_vars

\* The runs in which a job may be given further parents, followed up to the
\* tick that finds at the head of the queue an ID that is registered already.
DepsNext ==
    \/ \E j \in Jobs : \E p \in Jobs \cup {NoParent} : CallEnqueue(j, p)
    \/ \E j \in Jobs : \E p \in Jobs : CallEnqueueAgain(j, p)
    \/ \E j \in Jobs : LockedEnqueue(j)
    \/ \E j \in Jobs : EqueueJobAfterAdd(j)
    \/ TickLock
    \/ /\ jobQueue # <<>> => pumpPc[PeekID(jobQueue)] = "none"
       /\ TickAdmit
    \/ \E j \in Jobs : \E d \in ProgressDescriptors : WorkerSend(j, d)
    \/ \E j \in Jobs : WorkerClose(j)
    \/ \E j \in Jobs : ConsumeUpdate(j)
    \/ \E j \in Jobs : ConsumeFinish(j)

DepsSpec == FairInit /\ [][DepsNext]_vars

\* The calls of one cache with two different answers to store, for two
\* corpora, the second of which is also used as an aligned corpus.
RefCorpora == {"c1", "c2"}
RefPayloads == [Attrs : AttrFilters, Aligned : {<<>>, <<"c2">>}]
RefAnswers == {"ans", "ans2"}

RefNext ==
    \/ \E corpusID \in RefCorpora : \E qry \in RefPayloads :
           \E value \in RefAnswers : Set(corpusID, qry, value)
    \/ \E corpusID \in RefCorpora : Del(corpusID)
    \/ \E corpusID \in RefCorpora : \E qry \in RefPayloads : Get(corpusID, qry)

RefSpec == FairInit /\ [][RefNext]_vars

\* Two threads that call the methods of one cache at the same time.
ConcNext ==
    \/ \E t \in CacheThreads : \E corpusID \in RefCorpora :
           \E qry \in RefPayloads : \E value \in Answers :
               SetLock(t, corpusID, qry, value)
    \/ \E t \in CacheThreads : SetUnlock(t)
    \/ \E t \in CacheThreads : \E corpusID \in RefCorpora : DelLock(t, corpusID)
    \/ \E t \in CacheThreads : DelUnlock(t)
    \/ \E t \in CacheThreads : \E corpusID \in RefCorpora :
           \E qry \in RefPayloads : GetBegin(t, corpusID, qry)
    \/ \E t \in CacheThreads : GetEnd(t)

ConcSpec == FairInit /\ [][ConcNext]_vars

\* groupBibItems applied to any list of listed values getAttrValues may
\* have collected for the bibliography label.
BibInit ==
    /\ ActionsInit
    /\ detachedJobs = {}
    /\ qc = NewEmptyQueryCache
    /\ lcache = NewLiveAttrsBuildConfProvider([Type |-> "mysql", Name |-> "global"])
    /\ ret = NoCall
    /\ nCalls = 0
    /\ qcPc = [t \in CacheThreads |-> NoCall]
    /\ attrValues \in BibInputs

BibNext == groupBibItems

BibSpec == BibInit /\ [][BibNext]_vars

\* ------------------------------------------------------------------ claims
\* the parents a job was enqueued with (the parentJobID of EqueueJobAfter)
ParentsOf(j) == IF callParent[j] = NoParent THEN {} ELSE {callParent[j]}
\* the worker function of job j has been invoked
Invoked(j) == workerPc[j] # "none"
\* job j was taken off the queue by dequeueJobAsFailed
DequeuedAsFailed(j) == pumpPc[j] # "none" /\ workerPc[j] = "none"
\* the FinishJob event of job j has been processed by the consumer
FinishProcessed(j) == pumpPc[j] = "done"
HasEntry(j) == j \in DOMAIN jobList
EntryFinished(j) == HasEntry(j) /\ IsFinished(jobList[j])
EntryHasError(j) == HasEntry(j) /\ GetError(jobList[j]) # NoErr
\* job j ended in failure: its FinishJob is processed, its entry carries an error
EndedInFailure(j) == FinishProcessed(j) /\ EntryFinished(j) /\ EntryHasError(j)

\* C1: in every reachable state the number of job-table entries that are not
\* marked finished is at most MaxNumConcurrentJobs.
C1_UnfinishedAtMostMax ==
    numOfUnfinishedJobs(jobList) <= MaxNumConcurrentJobs

\* C2: the worker of a job enqueued with EqueueJobAfter is never invoked when
\* one of its parents has ended in failure (finished with an error).
C2_NoRunAfterFailedParent ==
    [][\A j \in Jobs :
         (~Invoked(j) /\ Invoked(j)') =>
             ~(\E p \in ParentsOf(j) : EndedInFailure(p))]_vars

\* C3: a child's worker is started only after the FinishJob event of every one
\* of its parents has been applied to the dependency graph.
C3_ChildStartsAfterParents ==
    \A j \in Jobs :
        Invoked(j) => \A p \in ParentsOf(j) : parentState[p] # "unfinished"

\* C4: at the end of every admit tick (the tick goroutine is back at its
\* select) the queue lock is free.
C4_LockFreeAfterTick ==
    tickPc = "wait" => jobQueueLock = "free"

\* C5: every call to EnqueueJob or EqueueJobAfter eventually returns (a process
\* that has panicked is excused).
C5_EnqueueReturns ==
    \A j \in Jobs :
        (callPc[j] \in {"lock", "add"}) ~> (callPc[j] = "done" \/ crashed)

\* C6: if B was enqueued with parent A and A has finished without error, then
\* B's worker is eventually invoked (a process that has panicked is excused).
C6_ChildOfOkParentRuns ==
    \A j \in Jobs :
        (/\ callPc[j] = "done"
         /\ ParentsOf(j) # {}
         /\ \A p \in ParentsOf(j) : FinishProcessed(p) /\ parentState[p] = "ok")
        ~> (Invoked(j) \/ crashed)

\* C7: if A finished with an error and B was enqueued with parent A, then
\* eventually B's table entry exists, is finished and carries an error, and
\* B's worker has not been invoked (a process that has panicked is excused).
C7_ChildOfFailedParentFails ==
    \A j \in Jobs :
        (/\ callPc[j] = "done"
         /\ \E p \in ParentsOf(j) : EndedInFailure(p))
        ~> ((EntryFinished(j) /\ EntryHasError(j) /\ ~Invoked(j)) \/ crashed)

\* C8: the update channel of a job dequeued through dequeueJobAsFailed is
\* closed once its failed descriptor is pushed, so its FinishJob event is
\* eventually processed (a process that has panicked is excused).
C8_FailedJobFinishes ==
    \A j \in Jobs : DequeuedAsFailed(j) ~> (FinishProcessed(j) \/ crashed)

\* C9: sticky errors: when the table entry of a job carries an error, no
\* UpdateJob or FinishJob event for that job produces an entry without one.
C9_StickyErrors ==
    [][\A j \in Jobs :
         (EntryHasError(j) /\ (ConsumeUpdate(j) \/ ConsumeFinish(j)))
             => EntryHasError(j)']_vars

\* C9 witness: the entry of a job carries an error although the last
\* descriptor the consumer applied for it carried none.
C9_Witness ==
    \E j \in Jobs :
        /\ EntryHasError(j)
        /\ pumpItem[j] # NilItem
        /\ GetError(pumpItem[j]) = NoErr

\* C10: once an entry is marked finished, an UpdateJob event for the same ID
\* that carries a non-finished descriptor leaves the entry marked finished.
C10_FinishedStaysFinished ==
    [][\A j \in Jobs :
         (/\ EntryFinished(j)
          /\ syncUpdates[j] # <<>>
          /\ ~IsFinished(Head(syncUpdates[j]))
          /\ ConsumeUpdate(j))
             => EntryFinished(j)']_vars

\* the emission number of a descriptor (0: the initial status, never sent)
SeqOf(d) == IF "seq" \in DOMAIN d THEN d.seq ELSE 0

\* C11: per job the table entry follows the emission order: the entry is
\* always older than every descriptor of the worker still in the job's
\* channel (a job dequeued as failed has no worker: its channel holds the
\* status the scheduler registered it with), its emission number never
\* decreases, and when FinishJob has been applied no descriptor of the job is
\* left unapplied.
C11_UpdatesInOrder ==
    /\ [](\A j \in Jobs :
            /\ HasEntry(j) =>
                 \A i \in 1..Len(syncUpdates[j]) :
                     \/ SeqOf(jobList[j]) < SeqOf(syncUpdates[j][i])
                     \/ /\ DequeuedAsFailed(j)
                        /\ SeqOf(jobList[j]) = 0
                        /\ SeqOf(syncUpdates[j][i]) = 0
            /\ FinishProcessed(j) => syncUpdates[j] = <<>>)
    /\ [][\A j \in Jobs :
            (HasEntry(j) /\ HasEntry(j)') =>
                SeqOf(jobList[j]') >= SeqOf(jobList[j])]_vars

\* C11 witness: a job whose FinishJob is applied shows the descriptor that was
\* emitted second.
C11_Witness ==
    \E j \in Jobs : FinishProcessed(j) /\ HasEntry(j) /\ SeqOf(jobList[j]) >= 2

\* the worker of job j has emitted at least one descriptor and closed its
\* update channel, and the FinishJob event of j is not yet applied
EmittedAndClosed(j) ==
    /\ workerPc[j] = "returned"
    /\ chanClosed[j]
    /\ syncUpdates[j] # <<>> \/ pumpItem[j] # NilItem

\* C12: every admitted job whose worker emits one or more descriptors and
\* then closes its update channel eventually has a finished table entry and
\* is recorded in the dependency graph as a finished parent.
C12_EmittingJobFinishes ==
    \A j \in Jobs :
        EmittedAndClosed(j)
            ~> (EntryFinished(j) /\ parentState[j] \in {"ok", "failed"})

\* a step that runs the body of one admit tick
TickStep == tickPc = "admit" /\ tickPc' = "wait"
\* the tick finds room and a head that it does not delay
TickFindsWork ==
    /\ MaxNumConcurrentJobs > numUnfinished
    /\ jobQueue # <<>>
    /\ ~(HasDeps(jobDeps, PeekID(jobQueue))
         /\ MustWait(jobDeps, parentState, PeekID(jobQueue)))
\* the jobs registered by the step
Admitted == {j \in Jobs : pumpPc[j] = "none" /\ pumpPc'[j] # "none"}

\* C13 as stated: after a tick in which no head was delayed (and during which
\* the table count did not change behind the tick's back), the queue is empty
\* or the number of unfinished entries equals MaxNumConcurrentJobs.
C13_TickFillsCapacity ==
    [][(TickStep /\ TickFindsWork
          /\ numUnfinished = numOfUnfinishedJobs(jobList))
        => \/ jobQueue' = <<>>
           \/ numOfUnfinishedJobs(jobList') = MaxNumConcurrentJobs]_vars

\* C13 amended: one admit tick admits at most one job. A tick that finds
\* fewer than MaxNumConcurrentJobs unfinished entries, a non-empty queue and
\* a head it does not delay dequeues and registers exactly that head; any
\* other tick registers nothing and dequeues nothing.
C13_OneAdmissionPerTick ==
    [][TickStep =>
         IF TickFindsWork
         THEN /\ Admitted = {PeekID(jobQueue)}
              /\ jobQueue' = Dequeue(jobQueue)
         ELSE /\ Admitted = {}
              /\ Len(jobQueue') = Len(jobQueue)]_vars

\* C13 witness: a tick has admitted one job and returned although the queue
\* still holds a job without parents and there is room for it.
C13_Witness ==
    /\ tickPc = "wait"
    /\ jobQueueLock = "free"
    /\ Cardinality({j \in Jobs : pumpPc[j] # "none"}) = 1
    /\ numOfUnfinishedJobs(jobList) < MaxNumConcurrentJobs
    /\ Len(jobQueue) = 2
    /\ ~HasDeps(jobDeps, PeekID(jobQueue))

\* the list createJobList(true) has built so far
SnapList == {j \in Jobs : snap[j] = "in"}

\* C14: snapshot round trip: the list createJobList(true) returns at shutdown
\* is exactly the set of unfinished table entries (no finished entry, no
\* missing unfinished entry) of one of these moments: the cancellation, the
\* start of createJobList, one of its iterations or its return; and after a
\* restart on the file the detached registry holds exactly the jobs of the
\* file and the live table none of them.
C14_SnapshotRoundTrip ==
    [][/\ (exitPc # "serialize" /\ exitPc' = "serialize")
            => SnapList' \in moments' \cup {createJobList(jobList', TRUE)}
       /\ (restarts' = restarts + 1)
            => /\ detachedJobs' = statusFile
               /\ DOMAIN jobList' \cap statusFile = {}]_vars

\* C15: no job ID is both in the detached registry and in the live table; a
\* step that puts an ID into the table leaves it out of the detached registry.
C15_DetachedNotLive ==
    /\ [](detachedJobs \cap DOMAIN jobList = {})
    /\ [][\A j \in Jobs :
            (j \notin DOMAIN jobList /\ j \in DOMAIN jobList')
                => j \notin detachedJobs']_vars

\* C15 witness: after a restart that loaded job a as detached, a job with the
\* same ID has been registered: a is in the table and no longer detached.
C15_Witness ==
    /\ restarts = 1
    /\ SavedJob \in statusFile
    /\ SavedJob \in DOMAIN jobList
    /\ SavedJob \notin detachedJobs

\* C16: a detached job leaves the registry only when a job with the same ID
\* is registered or when ClearDetachedJob is called for it; no other step,
\* a shutdown/restart cycle included, removes it.
C16_DetachedStaysRecoverable ==
    [][\A j \in detachedJobs \ detachedJobs' :
          \/ j \in DOMAIN jobList'
          \/ ClearDetachedJob(j)]_vars

\* the channel a.tableUpdate is never closed: no close(tableUpdate) in the
\* package
TableUpdateClosed == FALSE
\* the consumer's `for upd := range ans.tableUpdate` has ended
ConsumerReturned == TableUpdateClosed

\* C17: after the context is cancelled the hourly clear tick, the admit tick
\* and the table-update consumer all eventually terminate (a process that
\* has panicked has no task left).
C17_TasksTerminate ==
    ctxDone ~> (\/ /\ clearPc = "stopped"
                   /\ tickPc = "stopped"
                   /\ ConsumerReturned
                \/ crashed)

C19_ControlsKeepUnfinished ==
    [][/\ jobStop' # jobStop =>
            /\ \E j \in DOMAIN jobList : jobStop' = Append(jobStop, j)
            /\ UNCHANGED <<jobList, jobQueue, jobDeps, parentState>>
       /\ \A j \in Jobs :
            (ClearIfFinished(j) /\ ~(HasEntry(j) /\ IsFinished(jobList[j])))
                => jobList' = jobList
       /\ \A j \in DOMAIN jobList :
            (~IsFinished(jobList[j]) /\ j \notin DOMAIN jobList')
                => ClearOldJobs]_vars

\* C19 witness: a stop request for an unfinished job has been published and
\* the job is still in the table, unfinished.
C19_Witness ==
    /\ jobStop # <<>>
    /\ HasEntry(jobStop[1])
    /\ ~IsFinished(jobList[jobStop[1]])
    /\ workerPc[jobStop[1]] = "running"

\* the roster of job j before and after a step (empty if the job has none)
RosterOf(nr, j) == IF j \in DOMAIN nr THEN nr[j] ELSE <<>>

\* C20: no roster ever holds an address twice; a step changes a roster by
\* appending one address it did not hold or by taking one address out, all
\* others staying; an AddNotification of an address the roster holds and a
\* RemoveNotification of one it does not hold change nothing.
C20_RosterNoDuplicates ==
    /\ [](\A j \in DOMAIN notificationRecipients :
            \A i, k \in 1..Len(notificationRecipients[j]) :
                notificationRecipients[j][i] = notificationRecipients[j][k]
                    => i = k)
    /\ [][\A j \in Jobs :
            LET old == RosterOf(notificationRecipients, j)
                new == RosterOf(notificationRecipients', j)
            IN /\ \/ new = old
                  \/ \E a \in Addresses \ Range(old) : new = Append(old, a)
                  \/ \E a \in Range(old) :
                        /\ Range(new) = Range(old) \ {a}
                        /\ Len(new) = Len(old) - 1
               /\ \A a \in Addresses :
                    /\ (AddNotification(j, a) /\ a \in Range(old)) => new = old
                    /\ (RemoveNotification(j, a) /\ a \notin Range(old))
                         => new = old
                    /\ (RemoveNotification(j, a) /\ a \in Range(old)
                          /\ FindJob(jobList, j))
                         => Range(new) = Range(old) \ {a}]_vars

\* C20 witness: one job's roster has been emptied by removals while another
\* job's roster holds several addresses.
C20_Witness ==
    \E j, k \in DOMAIN notificationRecipients :
        /\ notificationRecipients[j] = <<>>
        /\ Len(notificationRecipients[k]) >= 2

\* the step in which the consumer processes the FinishJob event of job j
FinishStep(j) == pumpPc[j] = "run" /\ pumpPc'[j] = "done"
\* the notifications dispatched for job j so far
MailsOf(j) == {i \in 1..Len(mailSent) : mailSent[i].job = j}

\* C21: a notification is handed to the mailer exactly at the processing of
\* a job's FinishJob event when the job has a roster at that moment, with
\* the roster as recipients; every such FinishJob dispatches one, no other
\* step (UpdateJob, a FinishJob without roster) dispatches any, and no job
\* gets more than one.
C21_NotifiedOnceAtFinish ==
    /\ [](\A j \in Jobs : Cardinality(MailsOf(j)) <= 1)
    /\ [][/\ mailSent' # mailSent =>
               \E j \in DOMAIN notificationRecipients :
                   /\ FinishStep(j)
                   /\ mailSent' = Append(mailSent,
                        [job |-> j, to |-> notificationRecipients[j]])
          /\ \A j \in Jobs :
               FinishStep(j) =>
                   IF j \in DOMAIN notificationRecipients
                   THEN mailSent' = Append(mailSent,
                          [job |-> j, to |-> notificationRecipients[j]])
                   ELSE mailSent' = mailSent]_vars

\* the table entries LastUnfinishedJobOfType(corpusID, jobType) is asked for
Matching(corpusID, jobType) ==
    {j \in DOMAIN jobList : /\ GetCorpus(jobList[j]) = corpusID
                            /\ GetType(jobList[j]) = jobType
                            /\ ~IsFinished(jobList[j])}

\* C22: LastUnfinishedJobOfType(corpus, type) returns one of the unfinished
\* table entries of that corpus and type, none of which has started earlier,
\* and reports "not found" exactly when the table has no such entry.
C22_OldestUnfinishedOfType ==
    ret.op = "LastUnfinishedJobOfType" =>
        LET M == Matching(ret.corpusID, ret.jobType)
        IN  /\ ret.found <=> M # {}
            /\ ~ret.found => ret.info = NilItem
            /\ ret.found =>
                 /\ \E j \in M : jobList[j] = ret.info
                 /\ \A j \in M : ~Before(GetStartDT(jobList[j]), GetStartDT(ret.info))

\* the scan has returned the older of two matching entries of a table that
\* also holds a finished entry of the same corpus and type, started no later
C22_Witness ==
    /\ ret.op = "LastUnfinishedJobOfType"
    /\ ret.found
    /\ \E j \in Matching(ret.corpusID, ret.jobType) :
           Before(GetStartDT(ret.info), GetStartDT(jobList[j]))
    /\ \E j \in DOMAIN jobList :
           /\ GetCorpus(jobList[j]) = ret.corpusID
           /\ GetType(jobList[j]) = ret.jobType
           /\ IsFinished(jobList[j])
           /\ ~Before(GetStartDT(ret.info), GetStartDT(jobList[j]))

\* corpus c is the primary corpus or one of the aligned corpora
Involves(c, corpusID, aligned) == c = corpusID \/ c \in Range(aligned)
\* the query without an attribute filter for the given aligned corpora
EmptyQuery(aligned) == [Attrs |-> <<>>, Aligned |-> aligned]

\* C23: for every stored cache entry, every corpus its key is made of (the
\* primary corpus and each aligned corpus) has a reverse-index bucket that
\* contains the key.
C23_KeysIndexedByCorpus ==
    \A corpusID \in Corpora : \A aligned \in AlignedLists :
        mkKey(corpusID, aligned) \in DOMAIN qc.data =>
            \A c \in Corpora :
                Involves(c, corpusID, aligned) =>
                    /\ c \in DOMAIN qc.corpKeyDeps
                    /\ mkKey(corpusID, aligned) \in Range(qc.corpKeyDeps[c])

\* a Del has pruned the index (it has left another corpus with an empty
\* bucket) and an entry with an aligned corpus is still stored
C23_Witness ==
    /\ ret.op = "Del"
    /\ \E corpusID \in Corpora : \E aligned \in AlignedLists :
           /\ Len(aligned) > 0
           /\ mkKey(corpusID, aligned) \in DOMAIN qc.data
    /\ \E c \in DOMAIN qc.corpKeyDeps : qc.corpKeyDeps[c] = <<>>

\* Get with an empty query misses for every combination that involves c
MissesAll(cache, c) ==
    \A corpusID \in Corpora : \A aligned \in AlignedLists :
        Involves(c, corpusID, aligned) =>
            GetAns(cache, corpusID, EmptyQuery(aligned)) = NilAns

\* C24: after Del(c) a Get with an empty query misses for every (corpus,
\* aligned) combination that involves c, as primary or as aligned corpus,
\* and goes on missing until a Set stores a combination that involves c.
C24_DelDropsEveryKeyOfCorpus ==
    [][\A c \in Corpora :
           /\ (ret'.op = "Del" /\ Del(c)) => MissesAll(qc', c)
           /\ (qc' # qc /\ MissesAll(qc, c) /\ ~MissesAll(qc', c)) =>
                  \E corpusID \in Corpora : \E qry \in Payloads : \E value \in Answers :
                      /\ Set(corpusID, qry, value)
                      /\ Involves(c, corpusID, qry.Aligned)]_vars

\* Del(c) has removed an entry in which c was an aligned corpus (the bucket
\* of its primary corpus is left empty) and the cache still holds an entry
C24_Witness ==
    /\ ret.op = "Del"
    /\ ret.corpusID \notin DOMAIN qc.corpKeyDeps
    /\ \E c \in DOMAIN qc.corpKeyDeps : qc.corpKeyDeps[c] = <<>>
    /\ DOMAIN qc.data # {}

\* C25: Get returns the nil answer for every query whose attribute filter is
\* not empty, whatever the cache holds, and leaves the cache as it is.
C25_FilteredQueryMisses ==
    [][(/\ ret'.op = "Get"
        /\ NumAttrs(ret'.qry) > 0
        /\ Get(ret'.corpusID, ret'.qry)) =>
           /\ ret'.ans = NilAns
           /\ qc' = qc]_vars

\* Get has returned nil for a query with an attribute filter although the
\* cache holds an answer for the query's corpus and aligned corpora
C25_Witness ==
    /\ ret.op = "Get"
    /\ NumAttrs(ret.qry) > 0
    /\ ret.ans = NilAns
    /\ mkKey(ret.corpusID, ret.qry.Aligned) \in DOMAIN qc.data

\* C26: Get on a corpus that has neither a cached entry nor a configuration
\* file (the check for the file reporting just that) returns ErrorNoSuchConfig
\* and no configuration, and leaves the cache and the files as they were.
C26_MissingConfNotCreated ==
    [][\A corpname \in ConfCorpora :
           (/\ corpname \notin DOMAIN lcache.data
            /\ ~IsFile(lcache, corpname)
            /\ ProviderGet(corpname, "ok")) =>
               /\ ret'.err = ErrorNoSuchConfig
               /\ ret'.conf = NilConf
               /\ lcache' = lcache]_vars

\* Get has returned ErrorNoSuchConfig for one corpus while the provider holds
\* the file and the cached entry of another
C26_Witness ==
    /\ ret.op = "Get"
    /\ ret.err = ErrorNoSuchConfig
    /\ DOMAIN lcache.data # {}
    /\ DOMAIN lcache.files # {}
    /\ ret.corpname \notin DOMAIN lcache.data \cup DOMAIN lcache.files

\* C27: with a global DB section of type mysql, every configuration Get
\* returns has its DB section equal to the global one.
C27_GetReturnsGlobalDB ==
    (/\ lcache.globalDBConf.Type = "mysql"
     /\ ret.op = "Get"
     /\ ret.err = NoErr) => ret.conf.DB = lcache.globalDBConf

\* corpus c has neither a cached entry nor a configuration file
Gone(p, c) == c \notin DOMAIN p.data /\ ~IsFile(p, c)

\* C28: a Clear(c) that succeeds leaves c without cached entry and without
\* file, and from then on Get(c) returns ErrorNoSuchConfig until a Save for
\* c; Uncache(c) returns whether c was cached, removes the cached entry only
\* and leaves the files, a cached entry always has its file, and a Get(c)
\* that finds the file and no cached entry returns the configuration read
\* from the file and caches it.
C28_ClearForgetsUncacheReloads ==
    [][\A c \in ConfCorpora :
           /\ (ret'.op = "Clear" /\ Clear(c, "ok")) => Gone(lcache', c)
           /\ (Gone(lcache, c) /\ ProviderGet(c, "ok")) =>
                  ret'.err = ErrorNoSuchConfig
           /\ (Gone(lcache, c) /\ ~Gone(lcache', c)) =>
                  \E data \in VTEConfs : data.Corpus = c /\ Save(data, "ok")
           /\ (ret'.op = "Uncache" /\ Uncache(c)) =>
                  /\ ret'.ok <=> c \in DOMAIN lcache.data
                  /\ c \notin DOMAIN lcache'.data
                  /\ lcache'.files = lcache.files
                  /\ c \in DOMAIN lcache.data => IsFile(lcache', c)
                  /\ \A d \in ConfCorpora \ {c} :
                         /\ d \in DOMAIN lcache'.data <=> d \in DOMAIN lcache.data
                         /\ d \in DOMAIN lcache.data => lcache'.data[d] = lcache.data[d]
           /\ (/\ c \notin DOMAIN lcache.data
               /\ IsFile(lcache, c)
               /\ ProviderGet(c, "ok")) =>
                  /\ ret'.err = NoErr
                  /\ ret'.conf = WithGlobalDB(lcache, LoadConf(lcache.files[c]))
                  /\ c \in DOMAIN lcache'.data
                  /\ lcache'.data[c] = ret'.conf]_vars

\* Get has returned the DB section of the file, which the entry cached by
\* Save did not have: the entry was removed and the file read again
C28_Witness ==
    /\ ret.op = "Get"
    /\ ret.err = NoErr
    /\ nCalls = 3
    /\ lcache.globalDBConf.Type = "sqlite"
    /\ ret.conf.DB = [Type |-> "mysql", Name |-> "stored"]
    /\ Marshal(ret.conf) = lcache.files[ret.corpname]

\* the IDs of the queued jobs
QueuedIDs(q) == {q[i].id : i \in 1..Len(q)}
\* the tick has room and the head of the queue was enqueued after a parent
\* whose FinishJob has not been applied yet
HeadBlocked ==
    /\ MaxNumConcurrentJobs > numUnfinished
    /\ jobQueue # <<>>
    /\ \E p \in ParentsOf(PeekID(jobQueue)) : parentState[p] = "unfinished"

\* C29: an admit tick that finds the head of the queue with an unfinished
\* parent moves the head to the tail and does nothing else: no job is
\* dequeued, registered or started, and the same jobs are queued afterwards.
C29_BlockedHeadOnlyDelayed ==
    [][(TickStep /\ HeadBlocked) =>
           /\ jobQueue' = DelayNext(jobQueue)
           /\ QueuedIDs(jobQueue') = QueuedIDs(jobQueue)
           /\ Admitted = {}
           /\ jobList' = jobList
           /\ workerPc' = workerPc
           /\ detachedJobs' = detachedJobs]_vars

\* job x is queued ahead of job y
Ahead(q, x, y) ==
    \E i, k \in 1..Len(q) : i < k /\ q[i].id = x /\ q[k].id = y
\* the jobs enqueued by EnqueueJob
Parentless == {j \in Jobs : callPc[j] # "idle" /\ callParent[j] = NoParent}

\* C30: jobs without parents are started in the order in which they were
\* enqueued. Step by step: a job that enters the queue enters behind every
\* queued job; two queued jobs without parents keep their order, whatever is
\* rotated to the tail; a job without parent leaves the queue only by being
\* started; and when a job without parent is started, every job without
\* parent that was queued ahead of it has been started.
C30_ParentlessStartInOrder ==
    [][/\ \A j \in Jobs :
            (j \notin QueuedIDs(jobQueue) /\ j \in QueuedIDs(jobQueue')) =>
                \A x \in QueuedIDs(jobQueue) : Ahead(jobQueue', x, j)
       /\ \A x, y \in Parentless :
            /\ (Ahead(jobQueue, x, y) /\ {x, y} \subseteq QueuedIDs(jobQueue')) =>
                   Ahead(jobQueue', x, y)
            /\ (Ahead(jobQueue, x, y) /\ ~Invoked(y) /\ Invoked(y)') => Invoked(x)'
       /\ \A x \in Parentless :
            /\ (x \in QueuedIDs(jobQueue) /\ x \notin QueuedIDs(jobQueue')) =>
                   (~Invoked(x) /\ Invoked(x)')
            /\ (~Invoked(x) /\ Invoked(x)') => x \in QueuedIDs(jobQueue)]_vars

\* two jobs without parents have been started, the first enqueued first,
\* while a job whose registered parent is unfinished is still queued
C30_Witness ==
    /\ Invoked("a") /\ Invoked("c")
    /\ {"a", "c"} \subseteq Parentless
    /\ jobQueue # <<>>
    /\ PeekID(jobQueue) = "b"
    /\ HasDeps(jobDeps, "b")
    /\ MustWait(jobDeps, parentState, "b")
    /\ parentState["a"] = "unfinished"

\* the tick examines job j: it has room, j is the head and has a jobDeps entry
AdmissionCheck(j) ==
    /\ TickStep
    /\ MaxNumConcurrentJobs > numUnfinished
    /\ jobQueue # <<>>
    /\ PeekID(jobQueue) = j
    /\ HasDeps(jobDeps, j)
\* job j has several parents and one of them is recorded as failed
SeveralParentsOneFailed(j) ==
    /\ HasDeps(jobDeps, j)
    /\ Cardinality(jobDeps[j]) > 1
    /\ \E p \in jobDeps[j] : parentState[p] = "failed"
\* the step takes j off the queue and registers it as failed, not starting it
FailedWithoutRunning(j) ==
    /\ jobQueue' = Dequeue(jobQueue)
    /\ j \in DOMAIN jobList'
    /\ GetError(jobList'[j]) = ParentErr
    /\ workerPc' = workerPc
\* the step moves the head to the tail and registers and starts nothing
OnlyDelayed ==
    /\ jobQueue' = DelayNext(jobQueue)
    /\ jobList' = jobList
    /\ workerPc' = workerPc

\* C31: a child with several parents, one of which has finished with failure,
\* is failed at its next admission check, whatever the state of its other
\* parents.
C31_FailedParentFailsAtOnce ==
    [][\A j \in Jobs :
         AdmissionCheck(j) /\ SeveralParentsOneFailed(j)
           => FailedWithoutRunning(j)]_vars

\* C31 (amended): at an admission check a child with several parents, one of
\* them failed, is moved to the tail while another parent is unfinished, and
\* is failed without running once no parent is unfinished.
C31_FailedOnceNoParentUnfinished ==
    [][\A j \in Jobs :
         AdmissionCheck(j) /\ SeveralParentsOneFailed(j)
           => IF \E p \in jobDeps[j] : parentState[p] = "unfinished"
              THEN OnlyDelayed
              ELSE FailedWithoutRunning(j)]_vars

\* a child of a failed and a successful parent was dequeued as failed
C31_Witness ==
    \E j \in Jobs :
      /\ SeveralParentsOneFailed(j)
      /\ \E p \in jobDeps[j] : parentState[p] = "ok"
      /\ DequeuedAsFailed(j)
      /\ EntryHasError(j)

\* C32: the FinishJob event of a job whose worker closed its channel without
\* sending a descriptor is handled without a fault: the entry is marked
\* finished, the dependency graph records the job as finished, and the
\* consumer is there to process later events.
C32_SilentFinishHandled ==
    [][\A j \in Jobs :
         FinishStep(j) /\ HasEntry(j) /\ pumpItem[j] = NilItem
           => /\ ~crashed'
              /\ IsFinished(jobList'[j])
              /\ parentState'[j] \in {"ok", "failed"}]_vars

\* C33: when the FinishJob event of a job is processed, the failure flag
\* recorded for it in the dependency graph agrees with its finished table
\* entry: it is recorded as failed if and only if the entry carries an error.
C33_FlagAgreesWithEntry ==
    [][\A j \in Jobs :
         FinishStep(j) /\ HasEntry(j) /\ pumpItem[j] # NilItem
           => /\ IsFinished(jobList'[j])
              /\ (parentState'[j] = "failed")
                   <=> (GetError(jobList'[j]) # NoErr)]_vars

\* the number of queue elements that hold job j
TimesQueued(j) == Cardinality({i \in 1..Len(jobQueue) : jobQueue[i].id = j})
\* the enqueue call of job j has put it on the queue
Enqueued(j) == callPc[j] \in {"add", "done"}
\* job j has been registered: its pump goroutine was started
Registered(j) == pumpPc[j] # "none"

\* C34: every enqueued job is either on the queue exactly once, not registered
\* and not started, or off the queue and registered in the job table; a job
\* that was not enqueued is in neither place. A step takes a job off the
\* queue only by registering it, and starts a worker only for a job it takes
\* off the queue, so a worker is invoked at most once per enqueue.
C34_JobConservation ==
    /\ [](\A j \in Jobs :
            IF Enqueued(j)
            THEN \/ /\ TimesQueued(j) = 1
                    /\ ~Registered(j)
                    /\ ~Invoked(j)
                 \/ /\ TimesQueued(j) = 0
                    /\ Registered(j)
                    /\ HasEntry(j)
            ELSE TimesQueued(j) = 0 /\ ~Registered(j) /\ ~Invoked(j))
    /\ [][\A j \in Jobs :
            /\ TimesQueued(j)' < TimesQueued(j)
                 => TickStep /\ ~Registered(j) /\ Registered(j)' /\ HasEntry(j)'
            /\ ~Invoked(j) /\ Invoked(j)'
                 => TimesQueued(j) = 1 /\ TimesQueued(j)' = 0
            /\ workerPc[j] = "returned" => workerPc'[j] = "returned"]_vars

\* one job waits on the queue while another was dequeued and run and a third
\* was dequeued as failed
C34_Witness ==
    \E j, k, l \in Jobs :
      /\ TimesQueued(j) = 1 /\ ~Registered(j)
      /\ TimesQueued(k) = 0 /\ workerPc[k] = "returned" /\ HasEntry(k)
      /\ TimesQueued(l) = 0 /\ DequeuedAsFailed(l) /\ HasEntry(l)

\* C35: failure propagates along a chain: if A ended in failure, B (parent A)
\* was failed without running, and C was enqueued with parent B, then
\* eventually C's entry is finished and carries an error and C's worker has
\* not been invoked (a process that has panicked is excused).
C35_FailurePropagatesAlongChain ==
    \A b, c \in Jobs :
        (/\ callPc[b] = "done" /\ callPc[c] = "done"
         /\ \E a \in ParentsOf(b) : EndedInFailure(a)
         /\ DequeuedAsFailed(b)
         /\ b \in ParentsOf(c))
        ~> ((EntryFinished(c) /\ EntryHasError(c) /\ ~Invoked(c)) \/ crashed)

\* what Get answers for the query without filter on (corpusID, aligned)
Lookup(cache, corpusID, aligned) == GetAns(cache, corpusID, EmptyQuery(aligned))
\* the (corpus, aligned list) pairs a reference map is indexed by
RefKeys == Corpora \X AlignedLists
\* the reference map after Set(corpusID, qry, value): the pair of the call is
\* bound to the value when the query has no filter, nothing else changes
RefAfterSet(cache, corpusID, qry, value, k) ==
    IF NumAttrs(qry) = 0 /\ k = <<corpusID, qry.Aligned>>
    THEN value
    ELSE Lookup(cache, k[1], k[2])
\* the reference map after Del(c): every pair that mentions c is unbound
RefAfterDel(cache, c, k) ==
    IF Involves(c, k[1], k[2]) THEN NilAns ELSE Lookup(cache, k[1], k[2])

C37_IndexNeitherDanglingNorDuplicate ==
    \A c \in DOMAIN qc.corpKeyDeps :
        /\ \A i \in 1..Len(qc.corpKeyDeps[c]) :
               qc.corpKeyDeps[c][i] \in DOMAIN qc.data
        /\ \A i, k \in 1..Len(qc.corpKeyDeps[c]) :
               i # k => qc.corpKeyDeps[c][i] # qc.corpKeyDeps[c][k]

\* a Del has emptied the bucket of one corpus by pruning, while the bucket
\* of another corpus still lists a key
C37_Witness ==
    /\ ret.op = "Del"
    /\ \E c \in DOMAIN qc.corpKeyDeps : qc.corpKeyDeps[c] = <<>>
    /\ \E c \in DOMAIN qc.corpKeyDeps : Len(qc.corpKeyDeps[c]) >= 1

\* thread t is reading the stored data in Get
Reading(t) == qcPc[t].op = "Get"
\* thread t is inside the critical section of Set or Del
InCriticalSection(t) == qcPc[t].op \in {"Set", "Del"}

\* C38: all accesses to the cache's storage are mutually exclusive: no
\* thread is reading the stored data in Get while another thread is inside
\* the critical section of Set or Del.
C38_CacheAccessesExclusive ==
    \A t, u \in CacheThreads : ~(Reading(t) /\ InCriticalSection(u))

\* the positions of the items of a list that carry the label
WithLabel(items, label) == {i \in 1..Len(items) : items[i].Label = label}
\* the sum of the Counts of the items at the given positions
RECURSIVE SumCounts(_, _)
SumCounts(items, idx) ==
    IF idx = {} THEN 0
    ELSE LET i == CHOOSE i \in idx : TRUE
         IN  items[i].Count + SumCounts(items, idx \ {i})

\* C39: groupBibItems merges the listed values by label: the result has
\* exactly one item per distinct label of the input and no other item; its
\* Count is the sum of the Counts of the input items with that label and its
\* Grouping is their number; an item that groups more than one input has
\* the ID "@" followed by the label, and the item of a label that occurs
\* once is the input item unchanged.
C39_GroupedByLabel ==
    [][(groupBibItems /\ attrValues.kind = "list") =>
         LET in == attrValues.items
             out == attrValues'.items
         IN  /\ \A k \in 1..Len(out) : WithLabel(in, out[k].Label) # {}
             /\ \A label \in BibLabels :
                  LET src == WithLabel(in, label)
                      res == WithLabel(out, label)
                  IN  src # {} =>
                        /\ Cardinality(res) = 1
                        /\ \A k \in res :
                             /\ out[k].Count = SumCounts(in, src)
                             /\ out[k].Grouping = Cardinality(src)
                             /\ Cardinality(src) > 1 =>
                                  out[k].ID = "@" \o label
                             /\ Cardinality(src) = 1 =>
                                  \A i \in src : out[k] = in[i]]_vars

====
